---- MODULE Spec2Model ----
(***************************************************************************)
(* Model of the raf-map-maker dungeon graph: the MapNode object graph      *)
(* (src/lib/types.ts), the generator (src/lib/map-generator.ts), the       *)
(* mutation functions (src/lib/graph-operations.ts), the flat-record       *)
(* serializer (src/lib/types.ts, src/lib/serialization.ts) and the record  *)
(* validator (src/unnamed/part_002).                                       *)
(*                                                                         *)
(* MapNode objects live in a heap (a sequence); a handle is an index into  *)
(* the heap and stands for the JavaScript object reference.  The id of a    *)
(* node is a field of the object, separate from its handle.                *)
(***************************************************************************)
EXTENDS Integers, Sequences, FiniteSets, TLC

(* ---------------- bounds of the model ---------------- *)

\* largest maxDepth handed to generateMap
MaxDepth == 2
\* largest number of MapNode objects alive in one graph
MaxNodes == 6
\* largest number of mutation calls after a graph was built
MaxOps == 2
\* records in a record array built one record at a time
MaxRecords == 3
MaxFileRecords == 2
\* the clock runs for this many minutes
MaxMinutes == 7
\* at most this many fetches are issued
MaxFetches == 4
\* Math.random() is drawn from { q / RandomDen : q \in 0..RandomDen-1 }
RandomDen == 4

(* ---------------- program constants ---------------- *)

RoomNULL == 0
RoomBATTLE == 1
RoomGOAL == 2
\* new Array(6).fill(0)
SlotCount == 6
\* addChildNode: currentChildren >= 4
MaxDoors == 4
\* addChildNode: for (let i = 0; i < 7; i++)
AddLoopLimit == 7
\* generateChildren: Math.floor(Math.random() * 4) + 1
BranchFactor == 4
\* the validator's upper limit of monsterIndex1
MaxMonsterIndex == 65535

\* the null reference
NoNode == 0

\* availableMonsterIndices handed to generateMap
IndexLists == { <<0, 1, 2, 3>>, <<2>> }

Random == 0 .. (RandomDen - 1)

(* ---------------- helpers ---------------- *)

Max(a, b) == IF a >= b THEN a ELSE b

Range(s) == { s[i] : i \in DOMAIN s }

\* Math.max over a set, 0 for the empty set
MaxOf(S) == IF S = {} THEN 0 ELSE CHOOSE x \in S : \A y \in S : x >= y

\* Array.prototype.filter(id => id > 0).length
CountPositive(rooms) == Cardinality({ i \in DOMAIN rooms : rooms[i] > 0 })

\* Array.prototype.indexOf / findIndex: the lowest index satisfying, 0 if none
FirstIndex(S) == IF S = {} THEN 0 ELSE CHOOSE i \in S : \A j \in S : i <= j

\* Array.prototype.splice(i, 1)
RemoveAt(s, i) == SubSeq(s, 1, i - 1) \o SubSeq(s, i + 1, Len(s))

\* new Array(n).fill(v)
RECURSIVE Filled(_, _)
Filled(n, v) == IF n = 0 THEN << >> ELSE Append(Filled(n - 1, v), v)

(* ---------------- JavaScript numbers ---------------- *)

\* The coordinates the layout computes are quotients of integers; a number
\* is kept as an exact fraction [n, d] in lowest terms with d > 0.
Abs(a) == IF a < 0 THEN -a ELSE a

RECURSIVE Gcd(_, _)
Gcd(a, b) == IF b = 0 THEN a ELSE Gcd(b, a % b)

\* the number n / d, d # 0
Num(n, d) ==
  LET g == Gcd(Abs(n), Abs(d))
      s == IF d < 0 THEN -1 ELSE 1
  IN [ n |-> (s * n) \div g, d |-> (s * d) \div g ]

NumPlus(a, b) == Num(a.n * b.d + b.n * a.d, a.d * b.d)
NumMinus(a, b) == Num(a.n * b.d - b.n * a.d, a.d * b.d)
\* a / k for an integer k > 0
NumOver(a, k) == Num(a.n, a.d * k)
NumLess(a, b) == a.n * b.d < b.n * a.d
NumMax(a, b) == IF NumLess(a, b) THEN b ELSE a
NumMin(a, b) == IF NumLess(b, a) THEN b ELSE a
\* a || k: k when a is 0
NumOr(a, k) == IF a.n = 0 THEN Num(k, 1) ELSE a

(* ---------------- MapNode (src/lib/types.ts) ---------------- *)

\* constructor(id, depth, maxDepth, isRoot, monsterIndex)
MapNode(id, depth, maxDepth, isRoot, monsterIndex) ==
  LET rt == IF depth >= maxDepth THEN RoomGOAL ELSE RoomBATTLE IN
  [ x |-> Num(0, 1),
    y |-> 0,
    id |-> id,
    depth |-> depth,
    roomType |-> rt,
    monsterIndex1 |-> IF rt = RoomGOAL THEN 0 ELSE monsterIndex,
    nextRooms |-> Filled(SlotCount, 0),
    children |-> << >>,
    parent |-> NoNode ]

\* the weight table chosen by depthRatio = depth / Math.max(maxDepth, 1)
WeightTable(depth, maxDepth) ==
  LET m == Max(maxDepth, 1) IN
  IF 4 * depth <= m THEN <<70, 20, 8, 2>>
  ELSE IF 2 * depth <= m THEN <<40, 35, 20, 5>>
  ELSE IF 4 * depth <= 3 * m THEN <<15, 30, 35, 20>>
  ELSE <<5, 15, 35, 45>>

\* weights.pop() while longer, weights.push(0) while shorter than availableIndices
FitWeights(w, n) == IF Len(w) >= n THEN SubSeq(w, 1, n) ELSE w \o Filled(n - Len(w), 0)

RECURSIVE SumSeq(_)
SumSeq(s) == IF s = << >> THEN 0 ELSE Head(s) + SumSeq(Tail(s))

\* the loop "random -= weights[i]; if (random <= 0) return availableIndices[i]"
\* with random = (q / RandomDen) * totalWeight, scaled by RandomDen
RECURSIVE PickWeighted(_, _, _, _)
PickWeighted(weights, avail, i, scaled) ==
  IF i > Len(weights) THEN avail[1]
  ELSE IF scaled - weights[i] * RandomDen <= 0 THEN avail[i]
  ELSE PickWeighted(weights, avail, i + 1, scaled - weights[i] * RandomDen)

\* the set of values getRandomMonsterIndexForDepth can return
getRandomMonsterIndexForDepth(depth, maxDepth, availableIndices) ==
  IF Len(availableIndices) = 0 THEN {0}
  ELSE LET weights == FitWeights(WeightTable(depth, maxDepth), Len(availableIndices))
           totalWeight == SumSeq(weights)
       IN IF totalWeight = 0 THEN { availableIndices[1] }
          ELSE { PickWeighted(weights, availableIndices, 1, q * totalWeight) : q \in Random }

\* a penultimate node that makes a GOAL node of its own every time
linkToOwnGoal(nodes, this, maxDepth, value, sharedGoalNode) ==
  IF Len(nodes) >= MaxNodes THEN {}
  ELSE { [ value |-> value + 1,
           heap |-> [ Append(nodes, [ MapNode(value, nodes[this].depth + 1, maxDepth, FALSE, 0)
                                        EXCEPT !.roomType = RoomGOAL, !.monsterIndex1 = 0 ])
                        EXCEPT ![this].nextRooms[1] = value,
                               ![this].children = << Len(nodes) + 1 >> ],
           goalNode |-> Len(nodes) + 1 ] }

\* the penultimate branch of generateChildren: one edge to the shared GOAL
\* node, which is created when there is none yet
linkToGoal(nodes, this, maxDepth, value, sharedGoalNode) ==
  IF sharedGoalNode = NoNode /\ Len(nodes) >= MaxNodes THEN {}
  ELSE
    LET fresh == sharedGoalNode = NoNode
        goalNode == IF fresh THEN Len(nodes) + 1 ELSE sharedGoalNode
        nodes1 == IF fresh
                  THEN Append(nodes, [ MapNode(value, nodes[this].depth + 1, maxDepth, FALSE, 0)
                                         EXCEPT !.roomType = RoomGOAL, !.monsterIndex1 = 0 ])
                  ELSE nodes
    IN { [ value |-> IF fresh THEN value + 1 ELSE value,
           heap |-> [ nodes1 EXCEPT ![this].nextRooms[1] = nodes1[goalNode].id,
                                    ![this].children = << goalNode >> ],
           goalNode |-> goalNode ] }

\* the results of generateChildren on the node `this`: a set of
\* [nodes, value, goalNode] over every outcome of Math.random();
\* goalNode = NoNode stands for a result without goalNode
RECURSIVE generateChildren(_, _, _, _, _, _)
RECURSIVE childLoop(_, _, _, _, _, _, _, _)
generateChildren(nodes, this, maxDepth, value, sharedGoalNode, avail) ==
  LET n == nodes[this] IN
  IF n.depth >= maxDepth \/ n.roomType = RoomGOAL THEN
    { [ value |-> value,
        heap |-> [ nodes EXCEPT ![this].children = << >>,
                               ![this].roomType = RoomGOAL,
                               ![this].monsterIndex1 = 0 ],
        goalNode |-> NoNode ] }
  ELSE IF n.depth = maxDepth - 1 THEN
    linkToGoal(nodes, this, maxDepth, value, sharedGoalNode)
  ELSE
    UNION { childLoop([ nodes EXCEPT ![this].children = << >> ], this, maxDepth, value,
                      sharedGoalNode, avail, 0, (q * BranchFactor) \div RandomDen + 1)
            : q \in Random }

\* an iteration that enters the child one slot further on
pushChildNextSlot(nodes, this, maxDepth, value, i, monsterIndex) ==
  Append([ nodes EXCEPT ![this].children = Append(@, Len(nodes) + 1),
                        ![this].nextRooms[i + 2] = value ],
         [ MapNode(value, nodes[this].depth + 1, maxDepth, FALSE, monsterIndex)
             EXCEPT !.parent = this ])

\* one iteration's "new MapNode(nodeIdCounter.value++, ...)", children.push(child)
\* and nextRooms[i] = child.id
pushChild(nodes, this, maxDepth, value, i, monsterIndex) ==
  Append([ nodes EXCEPT ![this].children = Append(@, Len(nodes) + 1),
                        ![this].nextRooms[i + 1] = value ],
         [ MapNode(value, nodes[this].depth + 1, maxDepth, FALSE, monsterIndex)
             EXCEPT !.parent = this ])

\* the for loop of generateChildren from iteration i on
childLoop(nodes, this, maxDepth, value, goalNode, avail, i, numChildren) ==
  IF i >= numChildren THEN { [ value |-> value, heap |-> nodes, goalNode |-> goalNode ] }
  ELSE IF Len(nodes) >= MaxNodes THEN {}
  ELSE
    UNION {
      UNION {
        childLoop(result.heap, this, maxDepth, result.value,
                  IF result.goalNode # NoNode THEN result.goalNode ELSE goalNode,
                  avail, i + 1, numChildren)
        : result \in generateChildren(pushChild(nodes, this, maxDepth, value, i, monsterIndex),
                                      Len(nodes) + 1, maxDepth, value + 1, goalNode, avail) }
      : monsterIndex \in getRandomMonsterIndexForDepth(nodes[this].depth + 1, maxDepth, avail) }

(* ---------------- generator (src/lib/map-generator.ts) ---------------- *)

\* generateMap that hands the root's id to the first child again
generateMapStaleCounter(maxDepth, availableMonsterIndices) ==
  { [ value |-> result.value, heap |-> result.heap, root |-> 1 ]
    : result \in generateChildren(<< MapNode(1, 0, maxDepth, TRUE, 0) >>, 1, maxDepth, 1,
                                  NoNode, availableMonsterIndices) }

\* generateMap: the set of [nodes, root, value] over every outcome of Math.random()
generateMap(maxDepth, availableMonsterIndices) ==
  { [ value |-> result.value, heap |-> result.heap, root |-> 1 ]
    : result \in generateChildren(<< MapNode(1, 0, maxDepth, TRUE, 0) >>, 1, maxDepth, 2,
                                  NoNode, availableMonsterIndices) }

\* createGoalNode(parentDepth, nodeId, maxDepth)
createGoalNode(parentDepth, nodeId, maxDepth) ==
  [ MapNode(nodeId, parentDepth + 1, maxDepth, FALSE, 0)
      EXCEPT !.roomType = RoomGOAL,
             !.monsterIndex1 = 0,
             !.nextRooms = <<0, 0, 0, 0, 0, 0>>,
             !.children = << >> ]

(* ---------------- mutation (src/lib/graph-operations.ts) ---------------- *)

\* addChildNode without the check for room
addChildNodeNoRoomCheck(nodes, parent, child) ==
  LET rooms == nodes[parent].nextRooms
      childId == nodes[child].id
      slot == FirstIndex({ i \in 1 .. AddLoopLimit : i \in DOMAIN rooms /\ rooms[i] = 0 })
  IN IF \E i \in DOMAIN rooms : rooms[i] = childId
       THEN [ heap |-> nodes, ret |-> FALSE ]
     ELSE [ heap |-> [ nodes EXCEPT ![parent].nextRooms =
                                      IF slot = 0 THEN rooms ELSE [ rooms EXCEPT ![slot] = childId ],
                                    ![parent].children = Append(@, child) ],
            ret |-> TRUE ]

\* addChildNode that fills the last empty slot instead of the first
addChildNodeLastSlot(nodes, parent, child) ==
  LET rooms == nodes[parent].nextRooms
      childId == nodes[child].id
      slot == MaxOf({ i \in DOMAIN rooms : rooms[i] = 0 })
  IN IF \E i \in DOMAIN rooms : rooms[i] = childId
       THEN [ heap |-> nodes, ret |-> FALSE ]
     ELSE IF CountPositive(rooms) >= MaxDoors
       THEN [ heap |-> nodes, ret |-> FALSE ]
     ELSE [ heap |-> [ nodes EXCEPT ![parent].nextRooms = [ rooms EXCEPT ![slot] = childId ],
                                    ![parent].children = Append(@, child) ],
            ret |-> TRUE ]

\* addChildNode(parent, child): [nodes, ret]
addChildNode(nodes, parent, child) ==
  LET rooms == nodes[parent].nextRooms
      childId == nodes[child].id
      slot == FirstIndex({ i \in 1 .. AddLoopLimit : i \in DOMAIN rooms /\ rooms[i] = 0 })
      rooms1 == IF slot = 0 THEN rooms ELSE [ rooms EXCEPT ![slot] = childId ]
      kids == nodes[parent].children
      kids1 == IF \E k \in DOMAIN kids : nodes[kids[k]].id = childId
               THEN kids ELSE Append(kids, child)
  IN IF \E i \in DOMAIN rooms : rooms[i] = childId
       THEN [ heap |-> nodes, ret |-> FALSE ]
     ELSE IF CountPositive(rooms) >= MaxDoors
       THEN [ heap |-> nodes, ret |-> FALSE ]
     ELSE [ heap |-> [ nodes EXCEPT ![parent].nextRooms = rooms1,
                                   ![parent].children = kids1 ],
            ret |-> TRUE ]

\* removeChildNode that leaves the children array alone
removeChildNodeKeepsChild(nodes, parent, childId) ==
  LET rooms == nodes[parent].nextRooms
      roomIndex == FirstIndex({ i \in DOMAIN rooms : rooms[i] = childId })
  IN IF roomIndex = 0
       THEN [ heap |-> nodes, ret |-> FALSE ]
     ELSE [ heap |-> [ nodes EXCEPT ![parent].nextRooms[roomIndex] = 0 ], ret |-> TRUE ]

\* removeChildNode that also detaches the child from its other predecessors
removeChildNodeEverywhere(nodes, parent, childId) ==
  IF \A i \in DOMAIN nodes[parent].nextRooms : nodes[parent].nextRooms[i] # childId
    THEN [ heap |-> nodes, ret |-> FALSE ]
  ELSE [ heap |-> [ h \in DOMAIN nodes |->
                      [ nodes[h] EXCEPT
                          !.nextRooms = [ i \in DOMAIN @ |-> IF @[i] = childId THEN 0 ELSE @[i] ],
                          !.children = SelectSeq(@, LAMBDA c : nodes[c].id # childId) ] ],
         ret |-> TRUE ]

\* removeChildNode(parent, childId): [nodes, ret]
removeChildNode(nodes, parent, childId) ==
  LET rooms == nodes[parent].nextRooms
      roomIndex == FirstIndex({ i \in DOMAIN rooms : rooms[i] = childId })
      kids == nodes[parent].children
      childIndex == FirstIndex({ k \in DOMAIN kids : nodes[kids[k]].id = childId })
  IN IF roomIndex = 0
       THEN [ heap |-> nodes, ret |-> FALSE ]
     ELSE [ heap |-> [ nodes EXCEPT ![parent].nextRooms[roomIndex] = 0,
                                   ![parent].children =
                                     IF childIndex = 0 THEN kids ELSE RemoveAt(kids, childIndex) ],
            ret |-> TRUE ]

(* ---------------- serializer (src/lib/types.ts) ---------------- *)

\* JavaScript values of a record field that may be a number, null or missing
JsNumber(n) == [ v |-> n, t |-> "number" ]
JsNull == [ v |-> 0, t |-> "null" ]
JsUndefined == [ v |-> 0, t |-> "undefined" ]
\* the object { monsterIndex1: m } of type BattleRoomData
BattleRoomData(m) == [ v |-> m, t |-> "object" ]

\* a property read: undefined when the record has no such property
Property(data, name) == IF name \in DOMAIN data THEN data[name] ELSE JsUndefined

\* toJSON(): MapNodeData
toJSON(node) ==
  [ id |-> node.id,
    roomType |-> node.roomType,
    nextRooms |-> node.nextRooms,
    roomData |-> IF node.roomType = RoomBATTLE THEN BattleRoomData(node.monsterIndex1)
                 ELSE JsNull ]

\* node.children.find(c => c.id === childId): a handle, NoNode if none
FindChild(nodes, node, childId) ==
  LET kids == nodes[node].children
      k == FirstIndex({ j \in DOMAIN kids : nodes[kids[j]].id = childId })
  IN IF k = 0 THEN NoNode ELSE kids[k]

\* the children toFlatJSON pushes for one dequeued node, in slot order
RECURSIVE QueuedChildren(_, _, _, _)
QueuedChildren(nodes, node, i, visited) ==
  IF i > Len(nodes[node].nextRooms) THEN << >>
  ELSE LET childId == nodes[node].nextRooms[i]
           child == IF childId > 0 THEN FindChild(nodes, node, childId) ELSE NoNode
           rest == QueuedChildren(nodes, node, i + 1, visited)
       IN IF child # NoNode /\ nodes[child].id \notin visited THEN << child >> \o rest
          ELSE rest

\* the BFS of toFlatJSON: the nodeMap (original id -> handle) it collects
RECURSIVE CollectNodes(_, _, _, _)
CollectNodes(nodes, queue, visited, nodeMap) ==
  IF queue = << >> THEN nodeMap
  ELSE LET node == Head(queue)
           id == nodes[node].id
       IN IF id \in visited THEN CollectNodes(nodes, Tail(queue), visited, nodeMap)
          ELSE CollectNodes(nodes,
                            Tail(queue) \o QueuedChildren(nodes, node, 1, visited \cup {id}),
                            visited \cup {id},
                            [ k \in DOMAIN nodeMap \cup {id} |->
                                IF k = id THEN node ELSE nodeMap[k] ])

\* the ids of a nodeMap in ascending order (sort((a, b) => a.id - b.id))
RECURSIVE SortedIds(_)
SortedIds(S) ==
  IF S = {} THEN << >>
  ELSE LET m == CHOOSE x \in S : \A y \in S : x <= y
       IN << m >> \o SortedIds(S \ {m})

\* position of an element in a sequence, 0 if absent
IndexOf(s, x) == FirstIndex({ i \in DOMAIN s : s[i] = x })

\* a remap that leaves the original ids in the slots
RemapRoomsKeepIds(rooms, sortedIds) == rooms

\* node.nextRooms.map(childId => childId > 0 ? (oldToNew.get(childId) || 0) : 0)
RECURSIVE RemapRooms(_, _)
RemapRooms(rooms, sortedIds) ==
  IF rooms = << >> THEN << >>
  ELSE << IF Head(rooms) > 0 THEN IndexOf(sortedIds, Head(rooms)) ELSE 0 >>
       \o RemapRooms(Tail(rooms), sortedIds)

RECURSIVE ExportNodes(_, _, _, _)
ExportNodes(nodes, nodeMap, sortedIds, k) ==
  IF k > Len(sortedIds) THEN << >>
  ELSE << [ toJSON(nodes[nodeMap[sortedIds[k]]])
              EXCEPT !.id = k,
                     !.nextRooms = RemapRooms(nodes[nodeMap[sortedIds[k]]].nextRooms,
                                              sortedIds) ] >>
       \o ExportNodes(nodes, nodeMap, sortedIds, k + 1)

\* this.toFlatJSON(): MapNodeData[]
toFlatJSON(nodes, this) ==
  LET nodeMap == CollectNodes(nodes, << this >>, {}, << >>)
  IN ExportNodes(nodes, nodeMap, SortedIds(DOMAIN nodeMap), 1)

\* fromJSON that forgets the monster of a BATTLE record
fromJSONNoMonster(data, parent, depth) ==
  [ MapNode(data.id, depth, 0, FALSE, 0)
      EXCEPT !.roomType = data.roomType,
             !.monsterIndex1 = 0,
             !.nextRooms = data.nextRooms,
             !.parent = parent,
             !.children = << >> ]

\* static fromJSON(data, parent, depth)
fromJSON(data, parent, depth) ==
  LET roomData == Property(data, "roomData") IN
  [ MapNode(data.id, depth, 0, FALSE, 0)
      EXCEPT !.roomType = data.roomType,
             !.monsterIndex1 = IF data.roomType = RoomBATTLE /\ roomData.t = "object"
                               THEN roomData.v ELSE 0,
             !.nextRooms = data.nextRooms,
             !.parent = parent,
             !.children = << >> ]

\* Array.isArray(node.nextRooms): the record has a nextRooms array
HasRooms(node) == "nextRooms" \in DOMAIN node

\* data.nextRooms.filter(id => id > 0)
Positive(rooms) == SelectSeq(rooms, LAMBDA id : id > 0)

\* dataArray.find(n => n.id === childId): an index, 0 if none
FindData(dataArray, childId) ==
  FirstIndex({ j \in DOMAIN dataArray : dataArray[j].id = childId })

\* buildNode(data, depth) of fromFlatJSON: [heap, node, overflow].  The
\* recursion has no visited set; a call at depth Len(dataArray) lies on a
\* cycle of records, where the recursion exhausts the call stack
RECURSIVE buildNode(_, _, _, _)
RECURSIVE buildChildren(_, _, _, _, _)
buildNode(nodes, dataArray, data, depth) ==
  IF depth >= Len(dataArray) THEN [ heap |-> nodes, node |-> NoNode, overflow |-> TRUE ]
  ELSE buildChildren(Append(nodes, fromJSON(data, NoNode, depth)), dataArray,
                     Len(nodes) + 1, Positive(data.nextRooms), depth)

\* the loop over childIds in buildNode
buildChildren(nodes, dataArray, node, childIds, depth) ==
  IF childIds = << >> THEN [ heap |-> nodes, node |-> node, overflow |-> FALSE ]
  ELSE IF FindData(dataArray, Head(childIds)) = 0
    THEN buildChildren(nodes, dataArray, node, Tail(childIds), depth)
  ELSE LET built == buildNode(nodes, dataArray,
                              dataArray[FindData(dataArray, Head(childIds))], depth + 1)
       IN IF built.overflow THEN [ heap |-> nodes, node |-> NoNode, overflow |-> TRUE ]
          ELSE buildChildren([ built.heap EXCEPT ![built.node].parent = node,
                                                 ![node].children = Append(@, built.node) ],
                             dataArray, node, Tail(childIds), depth)

\* allChildIds: the ids in the values of childrenMap, which keeps for each
\* record id the positive nextRooms of the last record of that id that has any
AllChildIds(dataArray) ==
  UNION { Range(Positive(dataArray[j].nextRooms))
          : j \in { k \in DOMAIN dataArray :
                    ~ \E k2 \in DOMAIN dataArray :
                        /\ k2 > k
                        /\ dataArray[k2].id = dataArray[k].id
                        /\ Positive(dataArray[k2].nextRooms) # << >> } }

\* static fromFlatJSON(dataArray): [heap, node, overflow]; node = NoNode is
\* null, overflow is an exception: the call stack exhausted in buildNode, or
\* the TypeError of .filter on a record without a nextRooms array
fromFlatJSON(dataArray) ==
  LET rootIndex == FirstIndex({ j \in DOMAIN dataArray :
                                dataArray[j].id \notin AllChildIds(dataArray) })
  IN IF Len(dataArray) = 0
       THEN [ heap |-> << >>, node |-> NoNode, overflow |-> FALSE ]
     ELSE IF \E j \in DOMAIN dataArray : ~ HasRooms(dataArray[j])
       THEN [ heap |-> << >>, node |-> NoNode, overflow |-> TRUE ]
     ELSE IF rootIndex = 0
       THEN [ heap |-> << >>, node |-> NoNode, overflow |-> FALSE ]
     ELSE buildNode(<< >>, dataArray, dataArray[rootIndex], 0)

(* ---------------- validator (src/unnamed/part_002) ---------------- *)

\* the errors of the nextRooms entries: nextRooms[i] < 0
RECURSIVE SlotErrors(_, _)
SlotErrors(rooms, i) ==
  IF i > Len(rooms) THEN << >>
  ELSE (IF rooms[i] < 0 THEN << "nextRooms[i] must be a non-negative integer" >> ELSE << >>)
       \o SlotErrors(rooms, i + 1)

\* validateSingleNode(node, path): the errors it pushes, in order
validateSingleNode(node) ==
  LET monsterIndex1 == Property(node, "monsterIndex1")
      nonZeroCount == CountPositive(node.nextRooms)
  IN (IF node.id < 1 THEN << "id must be a positive integer" >> ELSE << >>)
     \o (IF node.roomType \notin {0, 1, 2} THEN << "roomType must be 0, 1 or 2" >> ELSE << >>)
     \o (IF node.roomType = 1
           THEN IF monsterIndex1.t # "number" \/ monsterIndex1.v < 0
                   \/ monsterIndex1.v > MaxMonsterIndex
                  THEN << "BATTLE rooms must have monsterIndex1 as a number" >> ELSE << >>
         ELSE IF node.roomType = 0 \/ node.roomType = 2
           THEN IF monsterIndex1.t # "null"
                  THEN << "NULL and GOAL rooms must have monsterIndex1 = null" >> ELSE << >>
         ELSE << >>)
     \o (IF ~ HasRooms(node) \/ Len(node.nextRooms) # SlotCount
           THEN << "nextRooms must be an array of exactly 6 elements" >>
         ELSE SlotErrors(node.nextRooms, 1)
              \o (IF node.roomType = 1 /\ (nonZeroCount < 1 \/ nonZeroCount > SlotCount)
                    THEN << "BATTLE rooms must have 1-6 children" >> ELSE << >>)
              \o (IF node.roomType = 2 /\ nonZeroCount > 0
                    THEN << "GOAL rooms must have no children" >> ELSE << >>))

\* validateSingleNode that clears `valid` for a bad id only
SingleNodeValidIdOnly(node) == ~ (node.id < 1)

\* validateSingleNode(node, path): the flag `valid` it returns
SingleNodeValid(node) ==
  LET monsterIndex1 == Property(node, "monsterIndex1")
      nonZeroCount == CountPositive(node.nextRooms)
  IN /\ ~ (node.id < 1)
     /\ node.roomType \in {0, 1, 2}
     /\ node.roomType = 1 =>
          ~ (monsterIndex1.t # "number" \/ monsterIndex1.v < 0
             \/ monsterIndex1.v > MaxMonsterIndex)
     /\ (node.roomType = 0 \/ node.roomType = 2) => ~ (monsterIndex1.t # "null")
     /\ ~ (~ HasRooms(node) \/ Len(node.nextRooms) # SlotCount)
     /\ \A i \in DOMAIN node.nextRooms : ~ (node.nextRooms[i] < 0)
     /\ ~ (node.roomType = 1 /\ (nonZeroCount < 1 \/ nonZeroCount > SlotCount))
     /\ ~ (node.roomType = 2 /\ nonZeroCount > 0)

\* the first loop of validateFlatStructure: duplicate ids and each node
RECURSIVE NodeErrors(_, _)
NodeErrors(nodes, k) ==
  IF k > Len(nodes) THEN << >>
  ELSE (IF \E j \in 1 .. (k - 1) : nodes[j].id = nodes[k].id
          THEN << "Duplicate node ID found" >> ELSE << >>)
       \o validateSingleNode(nodes[k])
       \o NodeErrors(nodes, k + 1)

\* the errors of one node's references: missing children, GOAL with
\* children, BATTLE without
RECURSIVE MissingChildErrors(_, _, _)
MissingChildErrors(nodes, rooms, i) ==
  IF i > Len(rooms) THEN << >>
  ELSE (IF rooms[i] > 0 /\ ~ \E j \in DOMAIN nodes : nodes[j].id = rooms[i]
          THEN << "references non-existent child" >> ELSE << >>)
       \o MissingChildErrors(nodes, rooms, i + 1)

RECURSIVE ReferenceErrors(_, _)
ReferenceErrors(nodes, k) ==
  IF k > Len(nodes) THEN << >>
  ELSE MissingChildErrors(nodes, nodes[k].nextRooms, 1)
       \o (IF nodes[k].roomType = 2 /\ CountPositive(nodes[k].nextRooms) > 0
             THEN << "GOAL rooms cannot have children" >> ELSE << >>)
       \o (IF nodes[k].roomType = 1 /\ CountPositive(nodes[k].nextRooms) = 0
             THEN << "BATTLE rooms should have children or be GOAL type" >> ELSE << >>)
       \o ReferenceErrors(nodes, k + 1)

\* validateFlatStructure throws: node.nextRooms.filter on a record whose
\* nextRooms is not an array is a TypeError
FlatStructureThrows(nodes) == \E j \in DOMAIN nodes : ~ HasRooms(nodes[j])

\* validateFlatStructure(nodes): the errors it pushes, in order (up to the
\* exception, if it throws)
validateFlatStructure(nodes) ==
  IF Len(nodes) = 0 THEN << "Map must contain at least one node" >>
  ELSE
    LET ids == { nodes[j].id : j \in DOMAIN nodes }
        sortedIds == SortedIds(ids)
        rootNodes == { j \in DOMAIN nodes : nodes[j].id \notin AllChildIds(nodes) }
    IN NodeErrors(nodes, 1)
       \o (IF 1 \notin ids THEN << "Root node with ID 1 not found" >> ELSE << >>)
       \o (IF \E i \in DOMAIN sortedIds : sortedIds[i] # i
             THEN << "Node IDs must be incremental starting from 1" >> ELSE << >>)
       \o (IF FlatStructureThrows(nodes) THEN << >>
           ELSE ReferenceErrors(nodes, 1)
                \o (IF Cardinality(rootNodes) # 1
                      THEN << "Map must have exactly one root node" >> ELSE << >>))

\* validateFlatStructure that leaves `valid` alone when a referenced child
\* does not exist
FlatStructureValidNoReferences(nodes) ==
  IF Len(nodes) = 0 \/ FlatStructureThrows(nodes) THEN FALSE
  ELSE
    LET ids == { nodes[j].id : j \in DOMAIN nodes }
        sortedIds == SortedIds(ids)
        rootNodes == { j \in DOMAIN nodes : nodes[j].id \notin AllChildIds(nodes) }
    IN /\ \A k \in DOMAIN nodes :
            /\ ~ \E j \in 1 .. (k - 1) : nodes[j].id = nodes[k].id
            /\ SingleNodeValid(nodes[k])
       /\ 1 \in ids
       /\ \A i \in DOMAIN sortedIds : sortedIds[i] = i
       /\ \A k \in DOMAIN nodes :
            /\ ~ (nodes[k].roomType = 2 /\ CountPositive(nodes[k].nextRooms) > 0)
            /\ ~ (nodes[k].roomType = 1 /\ CountPositive(nodes[k].nextRooms) = 0)
       /\ Cardinality(rootNodes) = 1

\* validateFlatStructure(nodes): the flag `valid` it returns (it returns
\* nothing when it throws; FALSE stands for that)
FlatStructureValid(nodes) ==
  IF Len(nodes) = 0 \/ FlatStructureThrows(nodes) THEN FALSE
  ELSE
    LET ids == { nodes[j].id : j \in DOMAIN nodes }
        sortedIds == SortedIds(ids)
        rootNodes == { j \in DOMAIN nodes : nodes[j].id \notin AllChildIds(nodes) }
    IN /\ \A k \in DOMAIN nodes :
            /\ ~ \E j \in 1 .. (k - 1) : nodes[j].id = nodes[k].id
            /\ SingleNodeValid(nodes[k])
       /\ 1 \in ids
       /\ \A i \in DOMAIN sortedIds : sortedIds[i] = i
       /\ \A k \in DOMAIN nodes :
            /\ \A i \in DOMAIN nodes[k].nextRooms :
                 nodes[k].nextRooms[i] > 0 =>
                   \E j \in DOMAIN nodes : nodes[j].id = nodes[k].nextRooms[i]
            /\ ~ (nodes[k].roomType = 2 /\ CountPositive(nodes[k].nextRooms) > 0)
            /\ ~ (nodes[k].roomType = 1 /\ CountPositive(nodes[k].nextRooms) = 0)
       /\ Cardinality(rootNodes) = 1

\* validate(data) for an array on a new MapValidator: [valid, errors]
validate(data) ==
  [ errors |-> validateFlatStructure(data),
    valid |-> FlatStructureValid(data),
    threw |-> FlatStructureThrows(data) ]

(* ---------------- serialization (src/lib/serialization.ts) ---------------- *)

\* serializeMap(root) followed by JSON.parse: the record array
serializeMap(nodes, this) == toFlatJSON(nodes, this)

\* A JSON text is kept as the kind of value it parses to and that value:
\* "array" with the sequence of its records, "object" with the one record
\* (in a sequence of its own), "null",
\* or "invalid" for a text JSON.parse rejects
JsonArray(data) == [ value |-> data, kind |-> "array" ]
JsonObject(node) == [ value |-> << node >>, kind |-> "object" ]
JsonNull == [ value |-> << >>, kind |-> "null" ]
JsonInvalid == [ value |-> << >>, kind |-> "invalid" ]

\* validate that pushes onto the errors of the call before
validateWithoutReset(this, data) ==
  LET checked == IF data.kind = "array" THEN validate(data.value)
                 ELSE [ errors |-> validateSingleNode(data.value[1]),
                        valid |-> SingleNodeValid(data.value[1]),
                        threw |-> FALSE ]
  IN [ checked EXCEPT !.errors = this.errors \o @ ]

\* validate(data) on the MapValidator `this`: this.errors = [], then the
\* array or the single node is validated: [errors, valid, threw]
validateOn(this, data) ==
  LET cleared == [ this EXCEPT !.errors = << >> ]
      checked == IF data.kind = "array" THEN validate(data.value)
                 ELSE [ errors |-> validateSingleNode(data.value[1]),
                        valid |-> SingleNodeValid(data.value[1]),
                        threw |-> FALSE ]
  IN [ checked EXCEPT !.errors = cleared.errors \o @ ]

\* the result { root: null, errors } of deserializeMap
Failed(errors) == [ heap |-> << >>, root |-> NoNode, errors |-> errors, threw |-> FALSE ]

\* the body of deserializeMap's try block: [heap, root, errors, threw], threw
\* for an exception leaving the block
tryDeserialize(jsonString) ==
  LET Thrown == [ heap |-> << >>, root |-> NoNode, errors |-> << >>, threw |-> TRUE ]
      data == jsonString.value
      nodeErrors == validateSingleNode(data[1])
      checked == validate(data)
      built == fromFlatJSON(data)
  IN IF jsonString.kind = "invalid" THEN Thrown
     ELSE IF jsonString.kind = "null" THEN Thrown
     ELSE IF jsonString.kind = "object"
       THEN IF nodeErrors # << >> THEN Failed(nodeErrors)
            ELSE Failed(<< "Invalid map file: Expected flat array format" >>)
     ELSE IF checked.threw THEN Thrown
     ELSE IF ~ checked.valid THEN Failed(checked.errors)
     ELSE IF built.overflow THEN Thrown
     ELSE IF built.node = NoNode
       THEN Failed(<< "Could not reconstruct tree from data" >>)
     ELSE [ heap |-> built.heap, root |-> built.node, errors |-> << >>, threw |-> FALSE ]

\* deserializeMap without its try/catch
deserializeMapUncaught(jsonString) == tryDeserialize(jsonString)

\* deserializeMap(jsonString): [heap, root, errors, threw]
deserializeMap(jsonString) ==
  LET result == tryDeserialize(jsonString) IN
  IF result.threw THEN Failed(<< "Error parsing JSON" >>) ELSE result

(* ---------------- editor helpers (src/components/MapEditor.tsx) ---------------- *)

\* findMaxDepth(node): the recursion over children
RECURSIVE findMaxDepth(_, _)
findMaxDepth(nodes, node) ==
  IF nodes[node].children = << >> THEN nodes[node].depth
  ELSE MaxOf({ findMaxDepth(nodes, c) : c \in Range(nodes[node].children) })

\* findMaxId(node): Math.max(node.id, ...childIds, 0)
RECURSIVE findMaxId(_, _)
findMaxId(nodes, node) ==
  MaxOf({ nodes[node].id, 0 } \cup { findMaxId(nodes, c) : c \in Range(nodes[node].children) })

(* ---------------- graph predicates ---------------- *)

\* the non-zero entries of a node's nextRooms
EdgeIds(nodes, h) == Range(nodes[h].nextRooms) \ {0}

\* the nodes a node's non-zero nextRooms entries lead to
Successors(nodes, h) ==
  { FindChild(nodes, h, id) : id \in EdgeIds(nodes, h) } \ { NoNode }

\* the nodes reachable from the set S in zero or more steps
RECURSIVE Closure(_, _)
Closure(nodes, S) ==
  LET T == S \cup UNION { Successors(nodes, h) : h \in S }
  IN IF T = S THEN S ELSE Closure(nodes, T)

\* some path of one or more edges leads from h back to h
OnCycle(nodes, h) == h \in Closure(nodes, Successors(nodes, h))

(* ---------------- layout (src/lib/graph-operations.ts) ---------------- *)

\* const nodeWidth, levelHeight, minSiblingSpacing
nodeWidth == 140
levelHeight == 150
minSiblingSpacing == 40
\* rootNode.x = 600; rootNode.y = 50
RootX == 600
RootY == 50
\* the bounds of the centering offset: -leftMost + 100 and 1000
LeftMargin == 100
MaxOffset == 1000

\* a search that looks among the children of the root only
searchRootChildren(nodes, searchQueue, searchVisited, childId) ==
  FindChild(nodes, Head(searchQueue), childId)

\* the search of traverseGraph for the node of id childId in the tree of
\* children under the root: a handle, NoNode if none
RECURSIVE searchTree(_, _, _, _)
searchTree(nodes, searchQueue, searchVisited, childId) ==
  IF searchQueue = << >> THEN NoNode
  ELSE LET searchNode == Head(searchQueue) IN
       IF nodes[searchNode].id = childId THEN searchNode
       ELSE IF nodes[searchNode].id \in searchVisited
         THEN searchTree(nodes, Tail(searchQueue), searchVisited, childId)
       ELSE searchTree(nodes, Tail(searchQueue) \o nodes[searchNode].children,
                       searchVisited \cup { nodes[searchNode].id }, childId)

\* the nodes traverseGraph queues for the slots i .. of one visited node
RECURSIVE FoundChildren(_, _, _, _, _, _)
FoundChildren(nodes, rootNode, node, i, visited, allNodes) ==
  IF i > Len(nodes[node].nextRooms) THEN << >>
  ELSE LET childId == nodes[node].nextRooms[i]
           known == FirstIndex({ k \in DOMAIN allNodes : nodes[allNodes[k]].id = childId })
           child == IF known # 0 THEN allNodes[known]
                    ELSE searchTree(nodes, << rootNode >>, {}, childId)
           rest == FoundChildren(nodes, rootNode, node, i + 1, visited, allNodes)
       IN IF childId > 0 /\ childId \notin visited /\ child # NoNode
            THEN << child >> \o rest
          ELSE rest

\* the loop of traverseGraph; allNodes is the Map's values in insertion order
RECURSIVE traverseLoop(_, _, _, _, _)
traverseLoop(nodes, rootNode, queue, visited, allNodes) ==
  IF queue = << >> THEN allNodes
  ELSE LET node == Head(queue) IN
       IF nodes[node].id \in visited
         THEN traverseLoop(nodes, rootNode, Tail(queue), visited, allNodes)
       ELSE traverseLoop(nodes, rootNode,
                         Tail(queue) \o FoundChildren(nodes, rootNode, node, 1,
                                                      visited \cup { nodes[node].id },
                                                      Append(allNodes, node)),
                         visited \cup { nodes[node].id },
                         Append(allNodes, node))

\* traverseGraph(root): the nodes found, in the order they were found
traverseGraph(nodes, rootNode) == traverseLoop(nodes, rootNode, << rootNode >>, {}, << >>)

\* findNodeById(root, id): allNodes.get(id) || null
findNodeById(nodes, rootNode, id) ==
  LET allNodes == traverseGraph(nodes, rootNode)
      k == FirstIndex({ j \in DOMAIN allNodes : nodes[allNodes[j]].id = id })
  IN IF k = 0 THEN NoNode ELSE allNodes[k]

\* nodeParents.get(id): the found nodes with id among their nextRooms
Parents(nodes, allNodes, id) ==
  { allNodes[k] : k \in { j \in DOMAIN allNodes :
                          id > 0 /\ id \in Range(nodes[allNodes[j]].nextRooms) } }

\* the sum of parent.x over a set of parents
RECURSIVE SumX(_, _)
SumX(nodes, P) ==
  IF P = {} THEN Num(0, 1)
  ELSE LET p == CHOOSE q \in P : TRUE IN NumPlus(nodes[p].x, SumX(nodes, P \ {p}))

\* idealPositions.get(node): the mean x of the parents, 600 without parents
Ideal(nodes, allNodes, node) ==
  LET P == Parents(nodes, allNodes, nodes[node].id) IN
  IF P = {} THEN Num(RootX, 1) ELSE NumOver(SumX(nodes, P), Cardinality(P))

\* nodes.sort((a, b) => posA - posB): a stable sort by ideal position
RECURSIVE InsertByIdeal(_, _, _, _)
InsertByIdeal(nodes, allNodes, sorted, node) ==
  IF sorted = << >> THEN << node >>
  ELSE IF NumLess(Ideal(nodes, allNodes, node), Ideal(nodes, allNodes, Head(sorted)))
    THEN << node >> \o sorted
  ELSE << Head(sorted) >> \o InsertByIdeal(nodes, allNodes, Tail(sorted), node)

RECURSIVE SortByIdeal(_, _, _)
SortByIdeal(nodes, allNodes, row) ==
  IF row = << >> THEN << >>
  ELSE InsertByIdeal(nodes, allNodes,
                     SortByIdeal(nodes, allNodes, SubSeq(row, 1, Len(row) - 1)),
                     row[Len(row)])

\* a row where every node stands at its ideal position
RowAtIdeal(nodes, allNodes, row, positions) ==
  [ k \in 1 .. Len(row) |-> NumOr(Ideal(nodes, allNodes, row[k]), RootX) ]

\* the positions array of a sorted row: the ideal position, but no closer
\* to the previous node than nodeWidth + minSiblingSpacing
RECURSIVE RowPositions(_, _, _, _)
RowPositions(nodes, allNodes, row, positions) ==
  IF Len(positions) = Len(row) THEN positions
  ELSE LET i == Len(positions) + 1
           ideal == NumOr(Ideal(nodes, allNodes, row[i]), RootX)
       IN RowPositions(nodes, allNodes, row,
            Append(positions,
                   IF i = 1 THEN ideal
                   ELSE NumMax(NumPlus(positions[i - 1],
                                       Num(nodeWidth + minSiblingSpacing, 1)),
                               ideal)))

\* Math.min(...positions), Math.max(...positions)
RECURSIVE LeastOf(_)
LeastOf(s) == IF Len(s) = 1 THEN s[1] ELSE NumMin(s[1], LeastOf(Tail(s)))
RECURSIVE GreatestOf(_)
GreatestOf(s) == IF Len(s) = 1 THEN s[1] ELSE NumMax(s[1], GreatestOf(Tail(s)))

\* the sum of the ideal positions of a row
RECURSIVE SumIdeal(_, _, _)
SumIdeal(nodes, allNodes, row) ==
  IF row = << >> THEN Num(0, 1)
  ELSE NumPlus(Ideal(nodes, allNodes, Head(row)), SumIdeal(nodes, allNodes, Tail(row)))

\* the x of every node of a sorted row, in row order
RowX(nodes, allNodes, row) ==
  IF Len(row) = 1 THEN << NumOr(Ideal(nodes, allNodes, row[1]), RootX) >>
  ELSE LET positions == RowPositions(nodes, allNodes, row, << >>)
           leftMost == LeastOf(positions)
           rightMost == GreatestOf(positions)
           groupCenter == NumOver(NumPlus(leftMost, rightMost), 2)
           idealCenter == NumOver(SumIdeal(nodes, allNodes, row), Len(row))
           offset == NumMinus(idealCenter, groupCenter)
           shift == NumMax(NumMinus(Num(LeftMargin, 1), leftMost),
                           NumMin(offset, Num(MaxOffset, 1)))
       IN [ k \in 1 .. Len(row) |-> NumPlus(positions[k], shift) ]

\* the nodes with the x and y of a row written into them
RECURSIVE PlaceRow(_, _, _, _, _)
PlaceRow(nodes, row, xs, depth, k) ==
  IF k > Len(row) THEN nodes
  ELSE PlaceRow([ nodes EXCEPT ![row[k]].x = xs[k],
                               ![row[k]].y = RootY + depth * levelHeight ],
                row, xs, depth, k + 1)

\* the loop over the depths 1 .. maxDepth of calculateNodePositions
RECURSIVE PlaceRows(_, _, _, _)
PlaceRows(nodes, allNodes, depth, deepest) ==
  IF depth > deepest THEN nodes
  ELSE LET row == SortByIdeal(nodes, allNodes,
                              SelectSeq(allNodes, LAMBDA h : nodes[h].depth = depth))
       IN PlaceRows(IF row = << >> THEN nodes
                    ELSE PlaceRow(nodes, row, RowX(nodes, allNodes, row), depth, 1),
                    allNodes, depth + 1, deepest)

\* calculateNodePositions(rootNode): the nodes with their new x and y
calculateNodePositions(nodes, rootNode) ==
  LET allNodes == traverseGraph(nodes, rootNode)
      deepest == MaxOf({ nodes[allNodes[k]].depth : k \in DOMAIN allNodes })
  IN PlaceRows([ nodes EXCEPT ![rootNode].x = Num(RootX, 1), ![rootNode].y = RootY ],
               allNodes, 1, deepest)

(* ---------------- state ---------------- *)

\* useState(3): the editor's maxDepth before any map exists
DefaultMaxDepth == 3

\* the ids first, first + 1, ... (n of them)
RECURSIVE IdsFrom(_, _)
IdsFrom(first, n) == IF n = 0 THEN << >> ELSE << first >> \o IdsFrom(first + 1, n - 1)

\* n GOAL records with the ids first, first + 1, ...
RECURSIVE GoalRecords(_, _)
GoalRecords(first, n) ==
  IF n = 0 THEN << >>
  ELSE << [ id |-> first, roomType |-> RoomGOAL, monsterIndex1 |-> JsNull,
            nextRooms |-> Filled(SlotCount, 0) ] >>
       \o GoalRecords(first + 1, n - 1)

\* the record arrays handed to deserializeMap: a BATTLE root with k GOAL
\* children, in the record format the validator reads
FanRecords(k) ==
  << [ id |-> 1, roomType |-> RoomBATTLE, monsterIndex1 |-> JsNumber(0),
       nextRooms |-> IdsFrom(2, k) \o Filled(SlotCount - k, 0) ] >>
  \o GoalRecords(2, k)

LoadInputs == { JsonArray(FanRecords(k)) : k \in 1 .. SlotCount }

\* a record in the format the validator reads
Record(id, roomType, monsterIndex1, nextRooms) ==
  [ id |-> id, roomType |-> roomType, monsterIndex1 |-> monsterIndex1,
    nextRooms |-> nextRooms ]

\* nextRooms arrays with one and with two doors
OneDoor(a) == << a >> \o Filled(SlotCount - 1, 0)
TwoDoors(a, b) == << a, b >> \o Filled(SlotCount - 2, 0)

\* records that keep every per-record rule: BATTLE rooms with one or two
\* doors and GOAL rooms
SoundRecords ==
  { Record(id, RoomBATTLE, JsNumber(0), OneDoor(a))
      : id \in 1 .. MaxRecords, a \in 1 .. (MaxRecords + 1) }
  \cup { Record(id, RoomBATTLE, JsNumber(MaxMonsterIndex), TwoDoors(2, 3))
           : id \in 1 .. MaxRecords }
  \cup { Record(id, RoomGOAL, JsNull, Filled(SlotCount, 0)) : id \in 1 .. MaxRecords }
  \cup { Record(2, RoomNULL, JsNull, Filled(SlotCount, 0)) }

\* records that break a rule each, and the record toJSON writes
BrokenRecords ==
  { Record(0, RoomGOAL, JsNull, Filled(SlotCount, 0)),
    Record(2, 3, JsNull, Filled(SlotCount, 0)),
    Record(2, RoomBATTLE, JsNull, OneDoor(3)),
    Record(2, RoomBATTLE, JsNumber(MaxMonsterIndex + 1), OneDoor(3)),
    Record(2, RoomGOAL, JsNumber(0), Filled(SlotCount, 0)),
    Record(2, RoomGOAL, JsNull, OneDoor(3)),
    Record(2, RoomBATTLE, JsNumber(0), Filled(SlotCount, 0)),
    Record(2, RoomNULL, JsNumber(0), Filled(SlotCount, 0)),
    Record(1, RoomBATTLE, JsNumber(0), << 2 >> \o Filled(SlotCount - 2, 0)),
    Record(1, RoomBATTLE, JsNumber(0), Filled(SlotCount + 1, 2)),
    Record(1, RoomBATTLE, JsNumber(0), << -1, 2 >> \o Filled(SlotCount - 2, 0)),
    [ id |-> 2, roomType |-> RoomGOAL, monsterIndex1 |-> JsNull ],
    [ id |-> 2, roomType |-> RoomGOAL, nextRooms |-> Filled(SlotCount, 0),
      roomData |-> JsNull ] }

Records == SoundRecords \cup BrokenRecords

\* the JSON texts that are not built record by record
OtherTexts ==
  { JsonInvalid, JsonNull }
  \cup { JsonObject(r) : r \in Records }
  \cup LoadInputs

VARIABLES
  heap,           \* the MapNode objects of the current graph
  root,           \* handle of the root node, NoNode before a graph exists
  nodeIdCounter,  \* nodeIdCounter.value
  maxDepth,       \* the maxDepth the current graph was built with
  ops,            \* number of mutation calls made on the current graph
  last,           \* the last call: its name, arguments and return value
  prevHeap,       \* the heap before the last call
  input,          \* the JSON text under examination
  outcome,        \* what the last call on `input` returned
  validator,      \* the editor's MapValidator instance: its errors field
  staleErrors,    \* validator.errors was not empty when the last call on it began
  clock,          \* Date.now(), in milliseconds since the editor was opened
  monsterCache,   \* the module variable monsterCache of the catalog adapter
  lastFetchTime,  \* the module variable lastFetchTime
  calls,          \* the getMonsters calls: where each caller stands
  fetchLog        \* the clock readings of the calls that issued a fetch

graphVars == << heap, root, nodeIdCounter, maxDepth, ops, last, prevHeap >>
recordVars == << input, outcome, validator, staleErrors >>
catalogVars == << clock, monsterCache, lastFetchTime, calls, fetchLog >>
vars == << graphVars, recordVars, catalogVars >>

Handles == 1 .. Len(heap)

\* no call has been made on `input` yet
NoOutcome == [ heap |-> << >>, node |-> NoNode, errors |-> << >>, threw |-> FALSE,
               op |-> "none", ok |-> FALSE ]

\* the two callers of getMonsters the editor starts on mount
\* (useEffect: generateMap(), loadMonsters()) and a later Generate Map click
Callers == { "generateMap", "loadMonsters", "regenerate" }

Init ==
  /\ heap = << >>
  /\ root = NoNode
  /\ nodeIdCounter = 1
  /\ maxDepth = DefaultMaxDepth
  /\ ops = 0
  /\ last = [ parent |-> 0, child |-> 0, ret |-> FALSE, op |-> "none" ]
  /\ prevHeap = << >>
  /\ input = JsonArray(<< >>)
  /\ outcome = NoOutcome
  /\ validator = [ errors |-> << >> ]
  /\ staleErrors = FALSE
  /\ clock = 0
  /\ monsterCache = JsNull
  /\ lastFetchTime = 0
  /\ calls = [ c \in Callers |-> [ result |-> << >>, threw |-> FALSE, pc |-> "idle", now |-> 0 ] ]
  /\ fetchLog = << >>

\* every call generateMap(d, indices) within the bounds with each of its results
GenerateCalls ==
  UNION { { [ maxDepth |-> d, result |-> g ] : g \in generateMap(d, indices) }
          : << d, indices >> \in (1 .. MaxDepth) \X IndexLists }

\* const { root, nodeIdCounter } = generateMap(maxDepth, availableMonsterIndices)
Generate ==
  \E call \in GenerateCalls :
    /\ heap' = call.result.heap
    /\ root' = call.result.root
    /\ nodeIdCounter' = call.result.value
    /\ maxDepth' = call.maxDepth
    /\ ops' = 0
    /\ last' = [ parent |-> 0, child |-> 0, ret |-> TRUE, op |-> "generateMap" ]
    /\ prevHeap' = << >>
    /\ UNCHANGED << recordVars, catalogVars >>

\* addChildNode(parent, child) between two nodes of the graph
AddChild ==
  /\ ops < MaxOps
  /\ \E p \in Handles, c \in Handles :
       LET r == addChildNode(heap, p, c) IN
       /\ heap' = r.heap
       /\ last' = [ parent |-> p, child |-> c, ret |-> r.ret, op |-> "addChildNode" ]
  /\ prevHeap' = heap
  /\ ops' = ops + 1
  /\ UNCHANGED << root, nodeIdCounter, maxDepth >>
  /\ UNCHANGED << recordVars, catalogVars >>

\* createGoalNode(parent.depth, nodeIdCounter.value++, maxDepth) followed by
\* addChildNode(parent, newGoalNode)
AddGoalChild ==
  /\ ops < MaxOps
  /\ Len(heap) < MaxNodes
  /\ \E p \in Handles :
       LET newGoalNode == createGoalNode(heap[p].depth, nodeIdCounter, maxDepth)
           heap1 == Append(heap, newGoalNode)
           r == addChildNode(heap1, p, Len(heap1))
       IN /\ heap' = r.heap
          /\ last' = [ parent |-> p, child |-> Len(heap1), ret |-> r.ret,
                       op |-> "addChildNode" ]
          /\ prevHeap' = heap1
  /\ nodeIdCounter' = nodeIdCounter + 1
  /\ ops' = ops + 1
  /\ UNCHANGED << root, maxDepth >>
  /\ UNCHANGED << recordVars, catalogVars >>

\* removeChildNode(parent, childId)
RemoveChild ==
  /\ ops < MaxOps
  /\ \E p \in Handles, cid \in 0 .. nodeIdCounter :
       LET r == removeChildNode(heap, p, cid) IN
       /\ heap' = r.heap
       /\ last' = [ parent |-> p, child |-> cid, ret |-> r.ret,
                    op |-> "removeChildNode" ]
  /\ prevHeap' = heap
  /\ ops' = ops + 1
  /\ UNCHANGED << root, nodeIdCounter, maxDepth >>
  /\ UNCHANGED << recordVars, catalogVars >>

\* every call deserializeMap(data) within the bounds with its result
LoadCalls == { [ data |-> data, loaded |-> deserializeMap(data) ] : data \in LoadInputs }

\* loading a record array: deserializeMap, then the editor's bookkeeping
\* (setMaxDepth(findMaxDepth(newRoot)), nodeIdCounter = findMaxId(newRoot) + 1)
Load ==
  \E call \in LoadCalls :
    /\ UNCHANGED << recordVars, catalogVars >>
    /\ IF call.loaded.root = NoNode
         THEN /\ last' = [ parent |-> 0, child |-> 0, ret |-> FALSE,
                            op |-> "deserializeMap" ]
              /\ UNCHANGED << heap, root, nodeIdCounter, maxDepth, ops, prevHeap >>
         ELSE /\ heap' = call.loaded.heap
              /\ root' = call.loaded.root
              /\ nodeIdCounter' = findMaxId(call.loaded.heap, call.loaded.root) + 1
              /\ maxDepth' = findMaxDepth(call.loaded.heap, call.loaded.root)
              /\ ops' = 0
              /\ last' = [ parent |-> 0, child |-> 0, ret |-> TRUE,
                            op |-> "deserializeMap" ]
              /\ prevHeap' = << >>

\* one more record at the end of the record array
AppendRecord ==
  /\ outcome = NoOutcome
  /\ input.kind = "array"
  /\ Len(input.value) < MaxRecords
  /\ \E r \in Records : input' = JsonArray(Append(input.value, r))
  /\ UNCHANGED << outcome, validator, staleErrors, graphVars, catalogVars >>

\* another JSON text in place of the empty array
ChooseText ==
  /\ outcome = NoOutcome
  /\ input = JsonArray(<< >>)
  /\ input' \in OtherTexts
  /\ UNCHANGED << outcome, validator, staleErrors, graphVars, catalogVars >>

\* new MapValidator().validate(data) on the parsed array
Validate ==
  /\ outcome = NoOutcome
  /\ input.kind = "array"
  /\ LET checked == validate(input.value) IN
     outcome' = [ heap |-> << >>,
                  node |-> NoNode,
                  errors |-> checked.errors,
                  threw |-> checked.threw,
                  op |-> "validate", ok |-> checked.valid /\ ~ checked.threw ]
  /\ UNCHANGED << input, validator, staleErrors, graphVars, catalogVars >>

\* MapNode.fromFlatJSON(data) on the parsed array
FromFlat ==
  /\ outcome = NoOutcome
  /\ input.kind = "array"
  /\ LET built == fromFlatJSON(input.value) IN
     outcome' = [ heap |-> built.heap,
                  node |-> built.node,
                  errors |-> << >>,
                  threw |-> built.overflow,
                  op |-> "fromFlatJSON",
                  ok |-> built.node # NoNode ]
  /\ UNCHANGED << input, validator, staleErrors, graphVars, catalogVars >>

\* deserializeMap(jsonString)
Deserialize ==
  /\ outcome = NoOutcome
  /\ LET result == deserializeMap(input) IN
     outcome' = [ heap |-> result.heap,
                  node |-> result.root,
                  errors |-> result.errors,
                  threw |-> result.threw,
                  op |-> "deserializeMap",
                  ok |-> result.root # NoNode ]
  /\ UNCHANGED << input, validator, staleErrors, graphVars, catalogVars >>

\* the files handed to the editor's validator: record arrays of up to
\* MaxFileRecords records, those of several records beginning with a
\* record of id 1, and single records
FileTexts ==
  { JsonArray(data) :
      data \in { d \in UNION { [ 1 .. n -> Records ] : n \in 0 .. MaxFileRecords } :
                 Len(d) > 1 => d[1].id = 1 } }
  \cup { JsonObject(r) : r \in Records }

\* validator.current.validate(data) on an array: the instance is the one
\* of the calls before
ValidateFile ==
  \E data \in { text \in FileTexts : text.kind = "array" } :
    LET checked == validateOn(validator, data) IN
    /\ validator' = [ errors |-> checked.errors ]
    /\ staleErrors' = (validator.errors # << >>)
    /\ input' = data
    /\ outcome' = [ heap |-> << >>,
                    node |-> NoNode,
                    errors |-> checked.errors,
                    threw |-> checked.threw,
                    op |-> "validator.validate",
                    ok |-> checked.valid /\ ~ checked.threw ]
    /\ UNCHANGED << graphVars, catalogVars >>

\* validator.current.validate(data) on a single record
ValidateNode ==
  \E data \in { text \in FileTexts : text.kind = "object" } :
    LET checked == validateOn(validator, data) IN
    /\ validator' = [ errors |-> checked.errors ]
    /\ staleErrors' = (validator.errors # << >>)
    /\ input' = data
    /\ outcome' = [ heap |-> << >>,
                    node |-> NoNode,
                    errors |-> checked.errors,
                    threw |-> checked.threw,
                    op |-> "validator.validate",
                    ok |-> checked.valid /\ ~ checked.threw ]
    /\ UNCHANGED << graphVars, catalogVars >>

\* calculateNodePositions(root) on the current graph
Layout ==
  /\ ops < MaxOps
  /\ root # NoNode
  /\ heap' = calculateNodePositions(heap, root)
  /\ last' = [ parent |-> 0, child |-> 0, ret |-> TRUE, op |-> "calculateNodePositions" ]
  /\ prevHeap' = heap
  /\ ops' = ops + 1
  /\ UNCHANGED << root, nodeIdCounter, maxDepth >>
  /\ UNCHANGED << recordVars, catalogVars >>

\* ---------------------------------------------------------------------
\* The catalog adapter (src/unnamed/part_003) and its callers
\* ---------------------------------------------------------------------

\* const CACHE_DURATION = 5 * 60 * 1000; // 5 minutes
CACHE_DURATION == 5 * 60 * 1000

\* the step of the clock: one minute
Minute == 60 * 1000

\* one entry of the catalog
Monster(index, name) == [ name |-> name, index |-> index ]

\* the fallback data fetchMonsters returns when the query throws
DefaultMonsters ==
  << Monster(0, "Goblin"), Monster(1, "ThiccGoblin"), Monster(2, "Troll"), Monster(3, "Orc") >>

\* the items a successful query answers with
ServerMonsters == << Monster(3, "Orc"), Monster(2, "Troll") >>

\* what apolloClient.query can do: answer with items, answer without
\* items (data?.monsters?.items || []), or throw
QueryOutcomes ==
  { [ threw |-> FALSE, items |-> ServerMonsters ],
    [ threw |-> FALSE, items |-> << >> ],
    [ threw |-> TRUE, items |-> << >> ] }

\* fetchMonsters() without its catch branch's fallback data
fetchMonstersNoFallback(query) == query.items

\* fetchMonsters(): the items of the answer, the fallback data on a throw
fetchMonsters(query) == IF query.threw THEN DefaultMonsters ELSE query.items

\* one step of .sort((a, b) => a.index - b.index)
RECURSIVE InsertByIndex(_, _)
InsertByIndex(sorted, monster) ==
  IF sorted = << >> THEN << monster >>
  ELSE IF monster.index < Head(sorted).index THEN << monster >> \o sorted
  ELSE << Head(sorted) >> \o InsertByIndex(Tail(sorted), monster)

\* monsters.map(...).sort((a, b) => a.index - b.index)
RECURSIVE SortByIndex(_)
SortByIndex(monsters) ==
  IF monsters = << >> THEN << >>
  ELSE InsertByIndex(SortByIndex(SubSeq(monsters, 1, Len(monsters) - 1)),
                     monsters[Len(monsters)])

\* the indices of a list of monsters, in order
RECURSIVE Indices(_)
Indices(monsters) ==
  IF monsters = << >> THEN << >>
  ELSE << Head(monsters).index >> \o Indices(Tail(monsters))

\* a catalog as the value of monsterCache
CachedCatalog(monsters) == [ v |-> monsters, t |-> "array" ]

\* monsterCache && (now - lastFetchTime < CACHE_DURATION)
CacheFresh(cache, fetchTime, now) ==
  cache.t # "null" /\ now - fetchTime < CACHE_DURATION

\* getMonsters() called by `caller`, up to its return or its await:
\* the cached catalog is returned, or fetchMonsters() is issued
getMonstersBegin(cs, log, caller) ==
  IF CacheFresh(monsterCache, lastFetchTime, clock)
  THEN [ calls |-> [ cs EXCEPT ![caller] = [ result |-> monsterCache.v, threw |-> FALSE,
                                             pc |-> "returned", now |-> clock ] ],
         log |-> log ]
  ELSE [ calls |-> [ cs EXCEPT ![caller] = [ result |-> << >>, threw |-> FALSE,
                                             pc |-> "awaiting", now |-> clock ] ],
         log |-> Append(log, [ caller |-> caller, at |-> clock ]) ]

\* useEffect(() => { generateMap(); loadMonsters(); }, []): both calls run
\* to their first await before anything else happens
Mount ==
  /\ calls["generateMap"].pc = "idle"
  /\ LET first == getMonstersBegin(calls, fetchLog, "generateMap")
         second == getMonstersBegin(first.calls, first.log, "loadMonsters")
     IN /\ calls' = second.calls
        /\ fetchLog' = second.log
  /\ UNCHANGED << clock, monsterCache, lastFetchTime >>
  /\ UNCHANGED << graphVars, recordVars >>

\* a click on Generate Map after the editor was mounted; the button is
\* disabled while a generation is under way
Regenerate ==
  /\ calls["generateMap"].pc \notin { "idle", "awaiting" }
  /\ calls["regenerate"].pc # "awaiting"
  /\ Len(fetchLog) < MaxFetches
  /\ LET call == getMonstersBegin(calls, fetchLog, "regenerate")
     IN /\ calls' = call.calls
        /\ fetchLog' = call.log
  /\ UNCHANGED << clock, monsterCache, lastFetchTime >>
  /\ UNCHANGED << graphVars, recordVars >>

\* fetchMonsters() resolves: monsterCache = ...; lastFetchTime = now; return
ResolveFetch ==
  \E caller \in Callers, query \in QueryOutcomes :
    /\ calls[caller].pc = "awaiting"
    /\ LET monsters == SortByIndex(fetchMonsters(query)) IN
       /\ monsterCache' = CachedCatalog(monsters)
       /\ calls' = [ calls EXCEPT ![caller] = [ result |-> monsters, threw |-> query.threw,
                                                pc |-> "returned",
                                                now |-> @.now ] ]
    /\ lastFetchTime' = calls[caller].now
    /\ UNCHANGED << clock, fetchLog >>
    /\ UNCHANGED << graphVars, recordVars >>

\* an item without `character`: the conversion throws, getMonsters
\* rejects and the module variables stay
RejectFetch ==
  \E caller \in Callers :
    /\ calls[caller].pc = "awaiting"
    /\ calls' = [ calls EXCEPT ![caller].pc = "failed" ]
    /\ UNCHANGED << clock, monsterCache, lastFetchTime, fetchLog >>
    /\ UNCHANGED << graphVars, recordVars >>

\* a minute passes
Tick ==
  /\ clock < MaxMinutes * Minute
  /\ clock' = clock + Minute
  /\ UNCHANGED << monsterCache, lastFetchTime, calls, fetchLog >>
  /\ UNCHANGED << graphVars, recordVars >>


\* ---------------------------------------------------------------------
\* The editor (src/components/MapEditor.tsx)
\* ---------------------------------------------------------------------

\* generateMap once getMonsters has returned `monsters` for depth d:
\* generateMapWithMonsters throws on an empty catalog and generateMap logs
\* the error, leaving the graph and the counter (`counter`) as they are;
\* otherwise the new graph, its counter and its positions are set
FinishGenerateMap(d, monsters, counter) ==
  IF Indices(monsters) = << >>
  THEN /\ nodeIdCounter' = counter
       /\ last' = [ parent |-> 0, child |-> 0, ret |-> FALSE,
                    op |-> "generateMapWithMonsters" ]
       /\ UNCHANGED << heap, root, ops, prevHeap >>
  ELSE \E g \in generateMap(d, Indices(monsters)) :
         /\ heap' = calculateNodePositions(g.heap, g.root)
         /\ root' = g.root
         /\ nodeIdCounter' = g.value
         /\ ops' = 0
         /\ last' = [ parent |-> 0, child |-> 0, ret |-> TRUE,
                      op |-> "generateMapWithMonsters" ]
         /\ prevHeap' = << >>

\* useEffect(() => { generateMap(); loadMonsters(); }, []): generateMap
\* resets the counter and awaits the catalog, loadMonsters awaits it too;
\* the depth the editor starts with is drawn from the bounds
EditorMount ==
  /\ calls["generateMap"].pc = "idle"
  /\ \E d \in 1 .. MaxDepth : maxDepth' = d
  /\ LET first == getMonstersBegin(calls, fetchLog, "generateMap")
         second == getMonstersBegin(first.calls, first.log, "loadMonsters")
     IN /\ calls' = second.calls
        /\ fetchLog' = second.log
  /\ nodeIdCounter' = 1
  /\ UNCHANGED << heap, root, ops, last, prevHeap >>
  /\ UNCHANGED << clock, monsterCache, lastFetchTime >>
  /\ UNCHANGED recordVars

\* a click on Generate Map with depth d entered: the counter is reset,
\* then the catalog comes from the cache at once or is awaited
ClickGenerate ==
  /\ calls["generateMap"].pc \notin { "idle", "awaiting" }
  /\ Len(fetchLog) < MaxFetches
  /\ \E d \in 1 .. MaxDepth :
       LET call == getMonstersBegin(calls, fetchLog, "generateMap") IN
       /\ maxDepth' = d
       /\ calls' = call.calls
       /\ fetchLog' = call.log
       /\ IF call.calls["generateMap"].pc = "returned"
            THEN FinishGenerateMap(d, call.calls["generateMap"].result, 1)
            ELSE /\ nodeIdCounter' = 1
                 /\ UNCHANGED << heap, root, ops, last, prevHeap >>
  /\ UNCHANGED << clock, monsterCache, lastFetchTime >>
  /\ UNCHANGED recordVars

\* the queries the editor's sessions see: those that are answered (a query
\* that throws yields the fallback data, one more non-empty catalog)
AnsweredQueries == { query \in QueryOutcomes : ~ query.threw }

\* the fetch of generateMap or loadMonsters settles: getMonsters fills the
\* cache and returns, and generateMap goes on with the catalog
FetchSettles ==
  \E caller \in { "generateMap", "loadMonsters" }, query \in AnsweredQueries :
    /\ calls[caller].pc = "awaiting"
    /\ LET monsters == SortByIndex(fetchMonsters(query)) IN
       /\ monsterCache' = CachedCatalog(monsters)
       /\ calls' = [ calls EXCEPT ![caller] = [ result |-> monsters, threw |-> query.threw,
                                                pc |-> "returned",
                                                now |-> @.now ] ]
       /\ IF caller = "generateMap"
            THEN FinishGenerateMap(maxDepth, monsters, nodeIdCounter)
            ELSE UNCHANGED << heap, root, nodeIdCounter, ops, last, prevHeap >>
    /\ lastFetchTime' = calls[caller].now
    /\ UNCHANGED << maxDepth, clock, fetchLog >>
    /\ UNCHANGED recordVars

\* addNewNode on the selected node: a fresh GOAL node with the counter's id
\* is pushed to its children and entered in its first empty slot
addNewNode(nodes, selectedNode, counter, depthLimit) ==
  LET newNode == [ createGoalNode(nodes[selectedNode].depth, counter, depthLimit)
                     EXCEPT !.parent = selectedNode ]
      nodes1 == Append(nodes, newNode)
      rooms == nodes[selectedNode].nextRooms
      slot == FirstIndex({ i \in 1 .. AddLoopLimit : i \in DOMAIN rooms /\ rooms[i] = 0 })
  IN [ nodes1 EXCEPT ![selectedNode].children = Append(@, Len(nodes1)),
                     ![selectedNode].nextRooms =
                       IF slot = 0 THEN rooms ELSE [ rooms EXCEPT ![slot] = counter ] ]

\* a click on Add Node with a node of the displayed graph selected
AddNewNode ==
  /\ ops < MaxOps
  /\ Len(heap) < MaxNodes
  /\ root # NoNode
  /\ \E selectedNode \in Closure(heap, {root}) \cup {root} :
       /\ CountPositive(heap[selectedNode].nextRooms) < MaxDoors
       /\ heap' = calculateNodePositions(
                    addNewNode(heap, selectedNode, nodeIdCounter, maxDepth), root)
       /\ last' = [ parent |-> selectedNode, child |-> Len(heap) + 1, ret |-> TRUE,
                    op |-> "addNewNode" ]
  /\ nodeIdCounter' = nodeIdCounter + 1
  /\ prevHeap' = heap
  /\ ops' = ops + 1
  /\ UNCHANGED << root, maxDepth >>
  /\ UNCHANGED << recordVars, catalogVars >>

Next == Generate \/ AddChild \/ AddGoalChild \/ RemoveChild

\* a session on generated graphs
Spec == Init /\ [][Next]_vars

NextEdit == Generate \/ Load \/ AddChild \/ AddGoalChild \/ RemoveChild

\* a session on generated and loaded graphs
EditSpec == Init /\ [][NextEdit]_vars

NextLayout == Generate \/ Load \/ AddChild \/ AddGoalChild \/ RemoveChild \/ Layout

\* a session on generated and loaded graphs that are edited and laid out
LayoutSpec == Init /\ [][NextLayout]_vars

NextRecord == AppendRecord \/ ChooseText \/ Validate \/ FromFlat \/ Deserialize

\* validator, fromFlatJSON and deserializeMap on JSON texts
RecordSpec == Init /\ [][NextRecord]_vars

NextCatalog == Mount \/ Regenerate \/ ResolveFetch \/ RejectFetch \/ Tick

\* the editor's getMonsters calls as time passes
CatalogSpec == Init /\ [][NextCatalog]_vars

\* the editing steps of the save-and-load workflow: a fresh GOAL node is
\* added to a BATTLE node with fewer than four edges
AddGoalToBattle ==
  /\ AddGoalChild
  /\ heap[last'.parent].roomType = RoomBATTLE
  /\ CountPositive(heap[last'.parent].nextRooms) < MaxDoors

\* an existing edge is removed from a node other than the one just added to
RemoveOtherEdge ==
  /\ RemoveChild
  /\ last'.ret
  /\ last.op = "addChildNode" => last'.parent # last.parent

NextWorkflow == Generate \/ AddGoalToBattle \/ RemoveOtherEdge

\* generate, edit with the mutation calls of the workflow, then save and load
WorkflowSpec == Init /\ [][NextWorkflow]_vars

NextValidator == ValidateFile \/ ValidateNode

\* one MapValidator instance validating file after file
ValidatorSpec == Init /\ [][NextValidator]_vars

NextEditor == EditorMount \/ ClickGenerate \/ FetchSettles \/ AddNewNode

\* the editor: Generate Map and Add Node as the catalog arrives
EditorSpec == Init /\ [][NextEditor]_vars

\* ---------------------------------------------------------------------
\* Properties of the graph API (src/lib/graph-operations.ts) and of the
\* generator (src/lib/types.ts)
\* ---------------------------------------------------------------------

\* the non-zero entries of a nextRooms array
NonZero(rooms) == { i \in DOMAIN rooms : rooms[i] # 0 }

\* the node h of `nodes` has one children entry per non-zero nextRooms
\* entry, with the same id, and neither list repeats an id
InSync(nodes, h) ==
  LET rooms == nodes[h].nextRooms
      children == nodes[h].children
  IN /\ { nodes[children[k]].id : k \in DOMAIN children } = { rooms[i] : i \in NonZero(rooms) }
     /\ \A i, j \in NonZero(rooms) : i # j => rooms[i] # rooms[j]
     /\ \A k, l \in DOMAIN children : k # l => nodes[children[k]].id # nodes[children[l]].id

\* C1: in every node, the ids of the children are exactly the non-zero
\* entries of nextRooms, and neither the children nor the non-zero
\* entries hold an id twice.
ChildrenMirrorEdges == \A h \in Handles : InSync(heap, h)

\* C1 witness: a penultimate node got a second edge from addChildNode and
\* then lost an edge to removeChildNode
ChildrenMirrorEdgesWitness ==
  /\ ops = 2
  /\ last.op = "removeChildNode" /\ last.ret /\ last.child > 0
  /\ CountPositive(prevHeap[last.parent].nextRooms) = 2
  /\ prevHeap[last.parent].depth = maxDepth - 1
  /\ Len(heap[last.parent].children) = 1

\* C2 (as stated): no node lies on a directed cycle, whatever sequence of
\* generateMap, addChildNode and removeChildNode calls built the graph.
GraphStaysAcyclic == \A h \in Handles : ~ OnCycle(heap, h)

\* C3: addChildNode(parent, child) returns false and changes nothing when
\* the child's id is already in parent.nextRooms or when all SlotCount
\* entries of parent.nextRooms are non-zero.
AddRefusesDuplicateOrFull ==
  last.op = "addChildNode" =>
    LET rooms == prevHeap[last.parent].nextRooms
        childId == prevHeap[last.child].id
    IN (childId \in Range(rooms) \/ Cardinality(NonZero(rooms)) = SlotCount)
         => last.ret = FALSE /\ heap = prevHeap

\* C3 witness: addChildNode was refused on a parent with SlotCount edges,
\* none of them to the child
AddRefusesFullWitness ==
  /\ last.op = "addChildNode" /\ last.ret = FALSE
  /\ Cardinality(NonZero(prevHeap[last.parent].nextRooms)) = SlotCount
  /\ prevHeap[last.child].id \notin Range(prevHeap[last.parent].nextRooms)

\* addChildNode(parent, child), called on a parent without an edge to the
\* child and with fewer than `limit` edges, returns true, writes the
\* child's id into the first zero entry and has the child in children
AddSucceedsBelow(limit) ==
  last.op = "addChildNode" =>
    LET rooms == prevHeap[last.parent].nextRooms
        childId == prevHeap[last.child].id
        slot == FirstIndex({ i \in DOMAIN rooms : rooms[i] = 0 })
    IN (childId \notin Range(rooms) /\ Cardinality(NonZero(rooms)) < limit)
         => /\ last.ret
            /\ heap[last.parent].nextRooms = [ rooms EXCEPT ![slot] = childId ]
            /\ \E k \in DOMAIN heap[last.parent].children :
                 heap[last.parent].children[k] = last.child
            /\ Len(heap[last.parent].children) = Len(prevHeap[last.parent].children) + 1

\* C4 (as stated): addChildNode succeeds whenever the child's id is not in
\* parent.nextRooms and fewer than SlotCount entries are non-zero.
AddSucceedsBelowSlotCount == AddSucceedsBelow(SlotCount)

\* C4 (amended): addChildNode succeeds, filling the lowest zero slot, when
\* the child's id is not in parent.nextRooms and fewer than MaxDoors
\* entries are non-zero.
AddSucceedsBelowMaxDoors == AddSucceedsBelow(MaxDoors)

\* C4 witness: addChildNode filled a hole below a non-zero entry
AddFillsLowestSlotWitness ==
  /\ last.op = "addChildNode" /\ last.ret
  /\ \E i, j \in DOMAIN prevHeap[last.parent].nextRooms :
       /\ i < j
       /\ prevHeap[last.parent].nextRooms[i] = 0
       /\ prevHeap[last.parent].nextRooms[j] # 0
       /\ heap[last.parent].nextRooms[i] = prevHeap[last.child].id

\* C5 (as stated): removeChildNode(parent, childId) returns false and
\* leaves nextRooms and children alone when childId is not the id of a
\* successor of parent.
RemoveRefusesNonSuccessor ==
  last.op = "removeChildNode" =>
    (last.child \notin { prevHeap[c].id : c \in Successors(prevHeap, last.parent) }
       => /\ last.ret = FALSE
          /\ heap[last.parent].nextRooms = prevHeap[last.parent].nextRooms
          /\ heap[last.parent].children = prevHeap[last.parent].children)

\* C6: a removeChildNode(parent, childId) that returns true zeroes the one
\* nextRooms slot of parent holding childId and drops the matching entry
\* of parent.children; every other field of parent and every other node,
\* the other predecessors of the child included, is left as it was.
RemoveTouchesOnlyParent ==
  (last.op = "removeChildNode" /\ last.ret /\ last.child > 0) =>
    LET before == prevHeap[last.parent]
        after == heap[last.parent]
    IN /\ Len(heap) = Len(prevHeap)
       /\ \A h \in Handles : h # last.parent => heap[h] = prevHeap[h]
       /\ \E i \in DOMAIN before.nextRooms :
            /\ before.nextRooms[i] = last.child
            /\ after.nextRooms = [ before.nextRooms EXCEPT ![i] = 0 ]
       /\ after.children = SelectSeq(before.children, LAMBDA c : prevHeap[c].id # last.child)
       /\ Len(after.children) = Len(before.children) - 1
       /\ [ after EXCEPT !.nextRooms = before.nextRooms, !.children = before.children ] = before

\* C6 witness: the removed child is still the successor of another node
RemoveSharedChildWitness ==
  /\ last.op = "removeChildNode" /\ last.ret /\ last.child > 0
  /\ \E h \in Handles :
       /\ h # last.parent
       /\ last.child \in EdgeIds(heap, h)
       /\ \E k \in DOMAIN heap[h].children : heap[heap[h].children[k]].id = last.child

\* the nodes reachable from the root, the root included
Reachable == IF root = NoNode THEN {} ELSE Closure(heap, {root}) \cup {root}

\* C7: in the graph generateMap(d) returns every node has depth <= d,
\* exactly one node has depth d, and every node of depth d - 1 has that
\* node as its only successor.
GeneratedFunnel ==
  last.op = "generateMap" =>
    LET deepest == { h \in Reachable : heap[h].depth = maxDepth }
    IN /\ \A h \in Reachable : heap[h].depth <= maxDepth
       /\ Cardinality(deepest) = 1
       /\ Cardinality({ h \in Handles : heap[h].depth = maxDepth }) = 1
       /\ \A h \in Reachable :
            heap[h].depth = maxDepth - 1 =>
              /\ Successors(heap, h) = deepest
              /\ Cardinality(NonZero(heap[h].nextRooms)) = 1

\* C7 witness: a generated graph with two nodes of depth d - 1
GeneratedFunnelWitness ==
  /\ last.op = "generateMap"
  /\ Cardinality({ h \in Reachable : heap[h].depth = maxDepth - 1 }) >= 2

\* C8: the N nodes generateMap creates carry the ids 1 .. N, each once,
\* the root has id 1, and the id counter is left at N + 1.
GeneratedIdsContiguous ==
  last.op = "generateMap" =>
    /\ heap[root].id = 1
    /\ Reachable = Handles
    /\ { heap[h].id : h \in Handles } = 1 .. Len(heap)
    /\ \A g, h \in Handles : g # h => heap[g].id # heap[h].id
    /\ nodeIdCounter = Len(heap) + 1

\* C8 witness: a generated graph of four nodes or more
GeneratedIdsWitness == last.op = "generateMap" /\ Len(heap) >= 4

\* the graph under the root is one fromFlatJSON is specified for: no
\* cycle, children in step with nextRooms, ids unique
ValidGraph ==
  /\ root # NoNode
  /\ \A h \in Reachable : ~ OnCycle(heap, h) /\ InSync(heap, h)
  /\ \A g, h \in Reachable : g # h => heap[g].id # heap[h].id

\* C9: for a valid graph G, toFlatJSON(fromFlatJSON(toFlatJSON(G))) is
\* toFlatJSON(G).
FlatRoundTrip ==
  ValidGraph =>
    LET flat == toFlatJSON(heap, root)
        back == fromFlatJSON(flat)
    IN /\ back.overflow = FALSE
       /\ back.node # NoNode
       /\ toFlatJSON(back.heap, back.node) = flat

\* C9 witness: a valid graph, edited so that a slot below an edge is
\* empty and a node is out of reach, whose records hold a shared node
\* and a monster other than 0
FlatRoundTripWitness ==
  /\ ValidGraph
  /\ Reachable # Handles
  /\ \E h \in Reachable : \E i, j \in DOMAIN heap[h].nextRooms :
       i < j /\ heap[h].nextRooms[i] = 0 /\ heap[h].nextRooms[j] # 0
  /\ \E h \in Reachable : heap[h].roomType = RoomBATTLE /\ heap[h].monsterIndex1 # 0
  /\ \E g, h \in Reachable : g # h /\ Successors(heap, g) \cap Successors(heap, h) # {}

\* C10 (as stated): the validator accepts the flat export of every graph
\* generateMap returns, with an empty error list.
GeneratedMapValidates ==
  last.op = "generateMap" =>
    /\ validate(toFlatJSON(heap, root)).valid
    /\ validate(toFlatJSON(heap, root)).errors = << >>

\* ---------------------------------------------------------------------
\* Properties of the serializer (src/lib/types.ts, src/lib/serialization.ts)
\* and of the validator (src/unnamed/part_002)
\* ---------------------------------------------------------------------

\* the position of the reachable node h when the reachable nodes are put
\* in the order of their ids
Rank(reach, h) == Cardinality({ g \in reach : heap[g].id <= heap[h].id })

\* the node of `reach` with the given id
NodeWithId(reach, id) == CHOOSE g \in reach : heap[g].id = id

\* C11: toFlatJSON emits one record per node reachable from the root, in
\* the order of the original ids, numbered 1 .. N in that order; each
\* record keeps the node's room type and monster, and each slot holds the
\* new id of the node the original entry referenced, zero staying zero.
FlatExportCanonical ==
  root # NoNode =>
    LET flat == toFlatJSON(heap, root)
        reach == Reachable
        rank == [ h \in reach |-> Rank(reach, h) ]
    IN /\ Len(flat) = Cardinality(reach)
       /\ \A k \in DOMAIN flat : flat[k].id = k
       /\ \A h \in reach :
            LET record == flat[rank[h]] IN
            /\ record.roomType = heap[h].roomType
            /\ heap[h].roomType = RoomBATTLE =>
                 record.roomData = BattleRoomData(heap[h].monsterIndex1)
            /\ Len(record.nextRooms) = Len(heap[h].nextRooms)
            /\ \A i \in DOMAIN heap[h].nextRooms :
                 record.nextRooms[i] =
                   IF heap[h].nextRooms[i] = 0 THEN 0
                   ELSE rank[NodeWithId(reach, heap[h].nextRooms[i])]

\* C11 witness: the reachable ids have a gap, two nodes share a
\* successor, and some slot's entry is renumbered
FlatExportCanonicalWitness ==
  /\ root # NoNode
  /\ LET reach == Reachable IN
     /\ { heap[h].id : h \in reach } # 1 .. Cardinality(reach)
     /\ \E g, h \in reach : g # h /\ Successors(heap, g) \cap Successors(heap, h) # {}
     /\ LET flat == toFlatJSON(heap, root) IN
        \E h \in reach : \E i \in DOMAIN heap[h].nextRooms :
          /\ heap[h].nextRooms[i] # 0
          /\ flat[Rank(reach, h)].nextRooms[i] # heap[h].nextRooms[i]

\* the non-zero nextRooms entries of the records with the given id
RecordEdges(data, id) ==
  UNION { { data[j].nextRooms[i] : i \in NonZero(data[j].nextRooms) }
          : j \in { k \in DOMAIN data : data[k].id = id /\ HasRooms(data[k]) } }

\* the ids reachable from the ids S along the records' nextRooms
RECURSIVE RecordClosure(_, _)
RecordClosure(data, S) ==
  LET T == S \cup UNION { RecordEdges(data, id) : id \in S }
  IN IF T = S THEN S ELSE RecordClosure(data, T)

\* a chain of nextRooms references leads from the record id back to it
RecordOnCycle(data, id) == id \in RecordClosure(data, RecordEdges(data, id))

\* C12 (as stated): a record array validate accepts has no chain of
\* non-zero nextRooms references that returns to its starting record.
AcceptedRecordsAcyclic ==
  (outcome.op = "validate" /\ outcome.ok) =>
    \A j \in DOMAIN input.value : ~ RecordOnCycle(input.value, input.value[j].id)

\* the ids some record's nextRooms references
Referenced(data) ==
  UNION { { data[j].nextRooms[i] : i \in NonZero(data[j].nextRooms) }
          : j \in { k \in DOMAIN data : HasRooms(data[k]) } }

\* the records no record's nextRooms references
Unreferenced(data) == { j \in DOMAIN data : data[j].id \notin Referenced(data) }

\* the cross-record rules: ids unique, ids 1 .. N, references resolved,
\* one root
IdsUnique(data) == \A j, k \in DOMAIN data : j # k => data[j].id # data[k].id
IdsContiguous(data) == { data[j].id : j \in DOMAIN data } = 1 .. Len(data)
ReferencesResolved(data) == Referenced(data) \subseteq { data[j].id : j \in DOMAIN data }
OneRoot(data) == Cardinality(Unreferenced(data)) = 1
CrossRules(data) ==
  IdsUnique(data) /\ IdsContiguous(data) /\ ReferencesResolved(data) /\ OneRoot(data)

\* the number of non-zero nextRooms entries of a record
DoorCount(node) == IF HasRooms(node) THEN Cardinality(NonZero(node.nextRooms)) ELSE 0

\* the per-record rules
RuleNames ==
  { "id", "roomType", "length", "goalDoors", "goalMonster", "battleDoors", "battleMonster" }

\* the record breaks the named per-record rule
Breaks(node, rule) ==
  LET monster == Property(node, "monsterIndex1") IN
  CASE rule = "id" -> node.id < 1
    [] rule = "roomType" -> node.roomType \notin { RoomNULL, RoomBATTLE, RoomGOAL }
    [] rule = "length" -> ~ HasRooms(node) \/ Len(node.nextRooms) # SlotCount
    [] rule = "goalDoors" -> node.roomType = RoomGOAL /\ DoorCount(node) # 0
    [] rule = "goalMonster" -> node.roomType = RoomGOAL /\ monster # JsNull
    [] rule = "battleDoors" ->
         node.roomType = RoomBATTLE /\ DoorCount(node) \notin 1 .. SlotCount
    [] rule = "battleMonster" ->
         node.roomType = RoomBATTLE
         /\ ~ (monster.t = "number" /\ monster.v \in 0 .. MaxMonsterIndex)

\* the per-record rules the record breaks
BrokenRules(node) == { rule \in RuleNames : Breaks(node, rule) }

\* every record keeps every per-record rule
RecordRules(data) == \A j \in DOMAIN data : BrokenRules(data[j]) = {}

\* C13: validate returns true only if the cross-record rules hold: the ids
\* are unique and exactly 1 .. N, every non-zero nextRooms entry is the id
\* of a record, and exactly one record is referenced by none; an array
\* that breaks one of them is rejected.
CrossRulesEnforced ==
  (outcome.op = "validate" /\ ~ CrossRules(input.value)) => ~ outcome.ok

\* C13 witness: validate rejected three records that keep every
\* per-record rule and break a cross-record rule
CrossRulesEnforcedWitness ==
  /\ outcome.op = "validate" /\ ~ outcome.ok
  /\ Len(input.value) = 3
  /\ RecordRules(input.value)
  /\ ~ CrossRules(input.value)

\* a record of room type NULL has the monster index null, as the records
\* of every type but BATTLE must
NullRoomsBare(data) ==
  \A j \in DOMAIN data :
    data[j].roomType = RoomNULL => Property(data[j], "monsterIndex1") = JsNull

DeserializeTotal ==
  outcome.op = "deserializeMap" =>
    /\ ~ outcome.threw
    /\ \/ outcome.node # NoNode /\ outcome.errors = << >>
       \/ outcome.node = NoNode /\ outcome.errors # << >>
    /\ outcome.node # NoNode =>
         /\ input.kind = "array"
         /\ validate(input.value).valid
         /\ ~ validate(input.value).threw
    /\ input \in { JsonArray(<< >>), JsonInvalid } => outcome.node = NoNode

\* C15 witness: deserializeMap returned no root and an error for a text
\* that is not JSON
DeserializeTotalWitness ==
  /\ outcome.op = "deserializeMap"
  /\ input = JsonInvalid
  /\ outcome.node = NoNode /\ outcome.errors # << >> /\ ~ outcome.threw

\* C16 (as stated): fromFlatJSON returns null when the records do not
\* have exactly one unreferenced record or when a non-zero nextRooms
\* entry references an id no record has.
FromFlatRejectsBadStructure ==
  outcome.op = "fromFlatJSON" =>
    ((~ OneRoot(input.value) \/ ~ ReferencesResolved(input.value))
       => outcome.node = NoNode)

\* the distinct ids are 1 .. M
DistinctIdsContiguous(data) ==
  { data[j].id : j \in DOMAIN data } = 1 .. Cardinality({ data[j].id : j \in DOMAIN data })

\* the cross-record rules the array breaks
BrokenCrossRules(data) ==
  { rule \in { "unique", "contiguous", "resolved", "oneRoot" } :
      CASE rule = "unique" -> ~ IdsUnique(data)
        [] rule = "contiguous" -> ~ DistinctIdsContiguous(data)
        [] rule = "resolved" -> ~ ReferencesResolved(data)
        [] rule = "oneRoot" -> ~ OneRoot(data) }

\* the sum of f over the indices 1 .. n
RECURSIVE BrokenRuleCount(_, _)
BrokenRuleCount(data, n) ==
  IF n = 0 THEN 0
  ELSE Cardinality(BrokenRules(data[n])) + BrokenRuleCount(data, n - 1)

\* C17 (as stated): after validate the error list has an entry for every
\* rule a record breaks and every cross-record rule the array breaks:
\* k broken rules give at least k errors.
EveryBrokenRuleReported ==
  outcome.op = "validate" =>
    Len(outcome.errors) >= BrokenRuleCount(input.value, Len(input.value))
                           + Cardinality(BrokenCrossRules(input.value))

\* ---------------------------------------------------------------------
\* Properties of the layout (src/lib/graph-operations.ts)
\* ---------------------------------------------------------------------

\* the distance of two numbers is at least k
Apart(a, b, k) ==
  ~ NumLess(NumMinus(a, b), Num(k, 1)) \/ ~ NumLess(NumMinus(b, a), Num(k, 1))

\* C18: after calculateNodePositions(root) any two distinct reachable
\* nodes of the same depth have x coordinates at least nodeWidth apart.
RowsSpaced ==
  last.op = "calculateNodePositions" =>
    \A a, b \in Reachable :
      (a # b /\ heap[a].depth = heap[b].depth) => Apart(heap[a].x, heap[b].x, nodeWidth)

\* C18 witness: a laid-out row of six nodes that the centering offset moved
RowsSpacedWitness ==
  /\ last.op = "calculateNodePositions"
  /\ \E d \in 1 .. MaxNodes :
       /\ Cardinality({ h \in Reachable : heap[h].depth = d }) = SlotCount
       /\ \E h \in Reachable : heap[h].depth = d /\ NumLess(heap[h].x, Num(RootX, 1))

\* C19 (as stated): after calculateNodePositions(root) on an acyclic graph
\* every edge (p, c) between reachable nodes has y_c > y_p.
EdgesPointDown ==
  (last.op = "calculateNodePositions" /\ \A h \in Reachable : ~ OnCycle(heap, h)) =>
    \A p \in Reachable : \A c \in Successors(heap, p) : heap[c].y > heap[p].y

\* ---------------------------------------------------------------------
\* Properties of the catalog adapter (src/unnamed/part_003)
\* ---------------------------------------------------------------------

\* C20 (as stated): within one time-to-live window the catalog fetch is
\* issued once: any two fetches, those of the concurrent calls at startup
\* included, are at least CACHE_DURATION apart.
FetchOncePerWindow ==
  \A i, j \in DOMAIN fetchLog :
    i < j => fetchLog[j].at - fetchLog[i].at >= CACHE_DURATION

\* the names of a list of monsters, in order
RECURSIVE Names(_)
Names(monsters) ==
  IF monsters = << >> THEN << >>
  ELSE << Head(monsters).name >> \o Names(Tail(monsters))

\* C22: a getMonsters call whose query threw resolves with the default
\* catalog of four monsters, indices 0, 1, 2, 3, named Goblin, ThiccGoblin,
\* Troll and Orc.
FallbackOnFailure ==
  \A c \in Callers :
    (calls[c].pc = "returned" /\ calls[c].threw) =>
      /\ Indices(calls[c].result) = << 0, 1, 2, 3 >>
      /\ Names(calls[c].result) = << "Goblin", "ThiccGoblin", "Troll", "Orc" >>

\* C22 witness: a call has resolved after its query threw
FallbackOnFailureWitness ==
  \E c \in Callers : calls[c].pc = "returned" /\ calls[c].threw

\* ---------------------------------------------------------------------
\* Properties of the editor (src/components/MapEditor.tsx)
\* ---------------------------------------------------------------------

\* C21 (as stated): map generation always proceeds and produces a graph,
\* with the default catalog standing in for an empty catalog; no
\* generation ends in the empty-catalog failure.
GenerationAlwaysProceeds ==
  last.op = "generateMapWithMonsters" => (last.ret /\ root # NoNode)

\* C28 (as stated): every node created by addNewNode has an id different
\* from the id of every other node of the graph it was added to.
AddedIdsFresh ==
  last.op = "addNewNode" =>
    \A h \in Reachable \ { last.child } : heap[h].id # heap[last.child].id

\* ---------------------------------------------------------------------
\* Properties of the save-and-load workflow (src/unnamed/part_007)
\* ---------------------------------------------------------------------

\* C23 (as stated): after generating and editing with successful mutation
\* calls, serializeMap's output has unique ascending ids, is accepted by
\* the validator, and deserializeMap of it returns a root and no errors.
WorkflowRoundTrips ==
  root # NoNode =>
    LET saved == serializeMap(heap, root)
        loaded == deserializeMap(JsonArray(saved))
    IN /\ \A i, j \in DOMAIN saved : i < j => saved[i].id < saved[j].id
       /\ validate(saved).valid
       /\ loaded.root # NoNode
       /\ loaded.errors = << >>

\* C24 (as stated): fromFlatJSON makes one node per record: in the graph
\* it builds from a record array the validator accepts, no two nodes have
\* the same id (a record referenced by several predecessors is one node).
OneNodePerRecord ==
  (outcome.op = "fromFlatJSON" /\ outcome.node # NoNode /\ validate(input.value).valid) =>
    \A g, h \in DOMAIN outcome.heap :
      g # h => outcome.heap[g].id # outcome.heap[h].id

\* the nodes found from the set S by following children arrays
RECURSIVE ChildClosure(_, _)
ChildClosure(nodes, S) ==
  LET T == S \cup UNION { Range(nodes[h].children) : h \in S }
  IN IF T = S THEN S ELSE ChildClosure(nodes, T)

\* no node is its own descendant, by nextRooms or by children
GraphAcyclic ==
  \A h \in Handles :
    /\ ~ OnCycle(heap, h)
    /\ h \notin ChildClosure(heap, Range(heap[h].children))

\* C25 (as stated): on every acyclic graph that generation, loading and
\* successful edits produce, findMaxDepth(root) is the greatest depth
\* among the nodes reachable from the root.
MaxDepthIsDeepest ==
  (root # NoNode /\ GraphAcyclic) =>
    findMaxDepth(heap, root) = MaxOf({ heap[h].depth : h \in Reachable })

\* the ids a lookup is made with: those in use, 0 and one that is not
LookupIds == 0 .. MaxNodes + 1

\* C26: traverseGraph(root) returns exactly the nodes reachable from the
\* root over non-zero nextRooms entries, each id once, and findNodeById
\* returns the reachable node of the id, or null when there is none.
TraverseFindsReachable ==
  root # NoNode =>
    LET allNodes == traverseGraph(heap, root) IN
    /\ Range(allNodes) = Reachable
    /\ \A i, j \in DOMAIN allNodes :
         i # j => heap[allNodes[i]].id # heap[allNodes[j]].id
    /\ \A id \in LookupIds :
         LET named == { h \in Reachable : heap[h].id = id } IN
         IF named = {} THEN findNodeById(heap, root, id) = NoNode
         ELSE findNodeById(heap, root, id) \in named

\* a node with two predecessors is found, and so is nothing for an unused id
TraverseFindsReachableWitness ==
  /\ root # NoNode
  /\ \E h \in Reachable :
       /\ Cardinality({ p \in Reachable : h \in Successors(heap, p) }) >= 2
       /\ findNodeById(heap, root, heap[h].id) = h
  /\ findNodeById(heap, root, MaxNodes + 1) = NoNode

\* the nodes with an edge to the node h
Predecessors(nodes, h) == { p \in DOMAIN nodes : h \in Successors(nodes, p) }

\* C27: in a generated graph of maxDepth d, a node above depth d - 1 has
\* 1 to 4 successors in the slots 0 .. k-1 of nextRooms, each a BATTLE node
\* of depth + 1 that is the successor of no other node; a node of depth
\* d - 1 has one successor, in slot 0; the GOAL nodes are those of depth d
\* and have no edge; so every other node has an edge.
GeneratedShape ==
  last.op = "generateMap" =>
    \A h \in Reachable :
      LET n == heap[h]
          k == Cardinality(NonZero(n.nextRooms))
      IN /\ n.depth < maxDepth - 1 =>
              /\ k \in 1 .. BranchFactor
              /\ NonZero(n.nextRooms) = 1 .. k
              /\ Cardinality(Successors(heap, h)) = k
              /\ \A c \in Successors(heap, h) :
                   /\ heap[c].roomType = RoomBATTLE
                   /\ heap[c].depth = n.depth + 1
                   /\ Predecessors(heap, c) = { h }
         /\ n.depth = maxDepth - 1 => NonZero(n.nextRooms) = { 1 }
         /\ n.roomType = RoomGOAL <=> n.depth = maxDepth
         /\ n.roomType = RoomGOAL => k = 0
         /\ n.roomType # RoomGOAL => k >= 1

\* C27 witness: a generated graph of depth 2 whose root has four successors
GeneratedShapeWitness ==
  /\ last.op = "generateMap"
  /\ maxDepth = 2
  /\ Cardinality(Successors(heap, root)) = BranchFactor

\* C29 (as stated): a removeChildNode(parent, childId) that returns true
\* has removed an edge: parent.nextRooms has exactly one non-zero entry
\* less than before the call, whatever integer childId is, 0 included.
RemoveTrueRemovesEdge ==
  (last.op = "removeChildNode" /\ last.ret) =>
    Cardinality(NonZero(heap[last.parent].nextRooms))
      = Cardinality(NonZero(prevHeap[last.parent].nextRooms)) - 1

\* C30: after a validate(data) that returns, it returned true exactly when
\* getErrors() is empty, and getErrors() holds the errors of that call
\* only, whatever the calls before left on the instance.
VerdictMatchesErrors ==
  (outcome.op = "validator.validate" /\ ~ outcome.threw) =>
    /\ outcome.ok <=> validator.errors = << >>
    /\ validator.errors =
         IF input.kind = "array" THEN validateFlatStructure(input.value)
         ELSE validateSingleNode(input.value[1])

\* C30 witness: a call on a file of MaxFileRecords records that returns
\* true on an instance whose call before left errors
VerdictMatchesErrorsWitness ==
  /\ outcome.op = "validator.validate"
  /\ ~ outcome.threw
  /\ outcome.ok
  /\ staleErrors
  /\ validator.errors = << >>
  /\ Len(input.value) = MaxFileRecords

====
